---- MODULE Spec2Model ----
(***************************************************************************)
(* A model of the hart of mini-rv32ima-ts (src/unnamed/part_002, the Cpu   *)
(* class) together with the devices its interrupt poll reads.              *)
(*                                                                         *)
(* The sources are roblox-ts: they use the Luau globals `buffer` and       *)
(* `bit32`, and the TypeScript operators  &  |  <<  >>  are lowered to     *)
(* bit32.band, bit32.bor, bit32.lshift and bit32.arshift.  Numbers are     *)
(* Luau doubles: additions and subtractions do not wrap, the bit32         *)
(* functions reduce their arguments modulo 2^32 and return a value in      *)
(* 0 .. 2^32-1.                                                            *)
(*                                                                         *)
(* TLC's integers are 32-bit signed, so a number n is kept as the record   *)
(* [hi, lo] with n = hi * 65536 + lo and lo in 0 .. 65535; hi is any       *)
(* integer (negative for a negative number, above 65535 past 2^32).        *)
(***************************************************************************)
EXTENDS Integers, Sequences, FiniteSets, TLC

\* ------------------------------------------------------------ numbers

\* 2^16, the radix of the [hi, lo] representation (not a program constant).
Half == 256 * 256

Pow2(n) == 2 ^ n

\* The number k (an integer TLC can hold) as [hi, lo].
N(k) == [hi |-> k \div Half, lo |-> k % Half]

\* a + b on doubles: no wrap.
Add(a, b) == [hi |-> a.hi + b.hi + ((a.lo + b.lo) \div Half), lo |-> (a.lo + b.lo) % Half]

\* a - b on doubles: no wrap (the result may be negative).
Sub(a, b) == [hi |-> a.hi - b.hi + ((a.lo - b.lo) \div Half), lo |-> (a.lo - b.lo) % Half]

\* k * a for a small integer k.
MulI(k, a) == [hi |-> k * a.hi + ((k * a.lo) \div Half), lo |-> (k * a.lo) % Half]

Lt(a, b) == a.hi < b.hi \/ (a.hi = b.hi /\ a.lo < b.lo)
Le(a, b) == a = b \/ Lt(a, b)

\* The conversion of a double to an unsigned 32-bit word that every bit32
\* function and buffer.writeu32 applies to its arguments.
ToU32(a) == [hi |-> a.hi % Half, lo |-> a.lo]

IsU32(a) == a.hi \in 0 .. (Half - 1) /\ a.lo \in 0 .. (Half - 1)

\* Bit i (0 .. 31) of the 32-bit word of a.
BitOf(a, i) ==
    IF i < 16 THEN (a.lo \div Pow2(i)) % 2
    ELSE ((a.hi % Half) \div Pow2(i - 16)) % 2

RECURSIVE AndNat(_, _)
\* The bitwise and of two natural numbers.
AndNat(a, b) ==
    IF a = 0 \/ b = 0 THEN 0
    ELSE (a % 2) * (b % 2) + 2 * AndNat(a \div 2, b \div 2)

\* The bitwise and of two bytes, tabulated.
And8 == [a \in 0 .. 255 |-> [b \in 0 .. 255 |-> AndNat(a, b)]]

\* The bitwise and of two 16-bit halves.
And16(a, b) == And8[a % 256][b % 256] + 256 * And8[a \div 256][b \div 256]

\* bit32.band, bit32.bor, bit32.bnot.
band(a, b) == [hi |-> And16(a.hi % Half, b.hi % Half), lo |-> And16(a.lo, b.lo)]
bor(a, b) ==
    [hi |-> (a.hi % Half) + (b.hi % Half) - And16(a.hi % Half, b.hi % Half),
     lo |-> a.lo + b.lo - And16(a.lo, b.lo)]
bnot(a) == [hi |-> (Half - 1) - (a.hi % Half), lo |-> (Half - 1) - a.lo]

\* bit32.lshift(a, n) for n >= 0: a shift by more than 31 bits gives 0.
lshift(a, n) ==
    IF n > 31 THEN N(0)
    ELSE IF n >= 16 THEN [hi |-> (a.lo * Pow2(n - 16)) % Half, lo |-> 0]
    ELSE [hi |-> ((a.hi % Half) * Pow2(n) + ((a.lo * Pow2(n)) \div Half)) % Half,
          lo |-> (a.lo * Pow2(n)) % Half]

\* bit32.arshift(a, n) for n >= 0: the vacated bits are copies of bit 31, and
\* a shift by more than 31 bits gives 0 or 0xFFFFFFFF.
arshift(a, n) ==
    LET hi == a.hi % Half
        sign == hi \div 32768
    IN  IF n > 31 THEN [hi |-> sign * (Half - 1), lo |-> sign * (Half - 1)]
        ELSE IF n >= 16
        THEN [hi |-> sign * (Half - 1),
              lo |-> (hi \div Pow2(n - 16)) + sign * (Half - Pow2(32 - n))]
        ELSE [hi |-> (hi \div Pow2(n)) + sign * (Half - Pow2(16 - n)),
              lo |-> (a.lo \div Pow2(n)) + (hi % Pow2(n)) * Pow2(16 - n)]

\* The shift count a number gives: every count above 31 acts alike.
ShiftCount(a) == IF a.hi = 0 /\ a.lo <= 31 THEN a.lo ELSE 32

\* ------------------------------------------------------------ constants

\* CSR addresses (part_002, lines 27-69), in decimal.
MSTATUS == 768
MEDELEG == 770
MIDELEG == 771
MIE == 772
MTVEC == 773
MEPC == 833
MCAUSE == 834
MTVAL == 835
MIP == 836
SSTATUS == 256
SIE == 260
STVEC == 261
SEPC == 321
SCAUSE == 322
STVAL == 323
SIP == 324
SATP == 384

\* MIP fields: 1 << 1, 1 << 3, 1 << 5, 1 << 7, 1 << 9, 1 << 11.
MIP_SSIP == 2
MIP_MSIP == 8
MIP_STIP == 32
MIP_MTIP == 128
MIP_SEIP == 512
MIP_MEIP == 2048

\* enum Mode.
User == 0
Supervisor == 1
Machine == 3

PAGE_SIZE == 4096

\* ------------------------------------------------------------ the CSR buffer

\* The bytes of `csrs` the named CSRs reach.  buffer.readu32(csrs, address)
\* reads the four bytes at byte offset `address` (the offset is the CSR
\* address itself, not four times it), so neighbouring CSRs share bytes.
CsrBytes ==
    (256 .. 264) \cup (321 .. 327) \cup (384 .. 387) \cup (768 .. 776) \cup (833 .. 839)

\* buffer.readu32: little-endian.
readu32(buf, a) ==
    [hi |-> buf[a + 2] + 256 * buf[a + 3], lo |-> buf[a] + 256 * buf[a + 1]]

\* buffer.writeu32: little-endian, the value reduced to 32 bits.
writeu32(buf, a, v) ==
    LET u == ToU32(v) IN
    [i \in DOMAIN buf |->
        IF i = a THEN u.lo % 256
        ELSE IF i = a + 1 THEN u.lo \div 256
        ELSE IF i = a + 2 THEN u.hi % 256
        ELSE IF i = a + 3 THEN u.hi \div 256
        ELSE buf[i]]

\* A variant of load_csr that reads every CSR, sie too, straight from the buffer.
load_csrUnmediated(buf, address) == readu32(buf, address)

\* Cpu.load_csr.
load_csr(buf, address) ==
    IF address = SIE
    THEN band(readu32(buf, MIE), readu32(buf, MIDELEG))
    ELSE readu32(buf, address)

\* Cpu.store_csr: the new contents of the buffer.
store_csr(buf, address, value) ==
    IF address = SIE
    THEN writeu32(buf, MIE,
            bor(band(readu32(buf, MIE), bnot(readu32(buf, MIDELEG))),
                band(value, readu32(buf, MIDELEG))))
    ELSE writeu32(buf, address, value)

\* ------------------------------------------------------------ traps (trap.ts)

\* enum ExceptionCodes.
ExceptionCodes == {0, 1, 2, 3, 4, 5, 6, 7, 8, 9, 11, 12, 13, 15}

\* enum InterruptCodes.
InterruptCodes == {0, 1, 3, 4, 5, 7, 8, 9, 11}

InstructionAccessFault == 1
LoadPageFault == 13
SupervisorSoftwareInterrupt == 1
MachineSoftwareInterrupt == 3
SupervisorTimerInterrupt == 5
MachineTimerInterrupt == 7
SupervisorExternalInterrupt == 9
MachineExternalInterrupt == 11

\* A Trap object: its exceptionCode and isInterrupt fields.
ExceptionTrap(code) == [exceptionCode |-> code, isInterrupt |-> FALSE]
InterruptTrap(code) == [exceptionCode |-> code, isInterrupt |-> TRUE]

\* No trap (`undefined`).
NoTrap == [exceptionCode |-> -1, isInterrupt |-> FALSE]

\* A variant of isFatal that also counts LoadAddressMisaligned (4) as fatal.
isFatalAlsoMisaligned(exceptionCode) == exceptionCode \in {0, 1, 4, 5, 6, 7}

\* Exception.isFatal.
isFatal(exceptionCode) == exceptionCode \in {0, 1, 5, 6, 7}

\* ------------------------------------------------------------ trap entry

\* takeTrapHelper, lines 507-510: the cause, with "an interrupt bit" or-ed in.
\* 1 << 63 is bit32.lshift(1, 63).
trapCause(cause, isInterrupt) ==
    IF isInterrupt THEN bor(lshift(N(1), 63), cause) ELSE cause

\* takeTrapHelper, line 511: the delegation test.
delegated(buf, previousMode, cause) ==
    /\ previousMode <= Supervisor
    /\ band(arshift(load_csr(buf, MEDELEG), ShiftCount(cause)), N(1)) # N(0)

\* A variant of trapTarget that vectors exceptions as well as interrupts.
trapTargetVectorsAll(tvec, cause, isInterrupt) ==
    LET vector == IF band(tvec, N(1)) = N(1) THEN MulI(4, cause) ELSE N(0)
    IN  Add(band(tvec, bnot(N(1))), vector)

\* takeTrapHelper, lines 516-526 and 580-591: the new program counter from
\* the value read from stvec or mtvec.
trapTarget(tvec, cause, isInterrupt) ==
    IF isInterrupt
    THEN LET vector == IF band(tvec, N(1)) = N(1) THEN MulI(4, cause) ELSE N(0)
         IN  Add(band(tvec, bnot(N(1))), vector)
    ELSE band(tvec, bnot(N(1)))

\* takeTrapHelper, lines 534-551 and 599-617: the three stores to xepc,
\* xcause and xtval, in the order of the code.
trapRegisters(buf, EPC, CAUSE, TVAL, exceptionProgramCounter, cause) ==
    store_csr(
        store_csr(
            store_csr(buf, EPC, band(exceptionProgramCounter, bnot(N(1)))),
            CAUSE, cause),
        TVAL, N(0))

\* store_csr(A, load_csr(A) | value) and store_csr(A, load_csr(A) & ~value),
\* the read-modify-write of the status registers in takeTrapHelper.
setBits(buf, A, value) == store_csr(buf, A, bor(load_csr(buf, A), value))
clearBits(buf, A, value) == store_csr(buf, A, band(load_csr(buf, A), bnot(value)))

\* A variant of saveInterruptEnable that sets xPIE whatever xIE holds.
saveInterruptEnableSets(buf, A, IE, PIE) ==
    store_csr(buf, A, bor(load_csr(buf, A), lshift(N(1), PIE)))

\* takeTrapHelper, lines 555-561 and 621-627: xPIE takes the value of xIE
\* (bit IE and bit PIE of the status register A).
saveInterruptEnable(buf, A, IE, PIE) ==
    IF band(arshift(load_csr(buf, A), IE), N(1)) = N(1)
    THEN store_csr(buf, A, bor(load_csr(buf, A), lshift(N(1), PIE)))
    ELSE store_csr(buf, A, band(load_csr(buf, A), bnot(lshift(N(1), PIE))))

\* takeTrapHelper, lines 567-574: sstatus.SPP.
setPreviousPrivilege(buf, previousMode) ==
    IF previousMode = User
    THEN clearBits(buf, SSTATUS, lshift(N(1), 8))
    ELSE setBits(buf, SSTATUS, lshift(N(1), 8))

\* takeTrapHelper, lines 555-574: sstatus on S-mode entry.
sstatusOnEntry(buf, previousMode) ==
    setPreviousPrivilege(
        clearBits(saveInterruptEnable(buf, SSTATUS, 1, 5), SSTATUS, lshift(N(1), 1)),
        previousMode)

\* takeTrapHelper, lines 621-631: mstatus on M-mode entry.
mstatusOnEntry(buf) ==
    clearBits(
        clearBits(saveInterruptEnable(buf, MSTATUS, 3, 7), MSTATUS, lshift(N(1), 3)),
        MSTATUS, lshift(N(3), 11))

\* A variant of supervisorEntry that leaves the mode as it was.
supervisorEntryKeepsMode(s, exceptionProgramCounter, previousMode, cause, isInterrupt) ==
    [s EXCEPT
        !.pc = trapTarget(load_csr(s.csrs, STVEC), cause, isInterrupt),
        !.csrs = sstatusOnEntry(
                    trapRegisters(s.csrs, SEPC, SCAUSE, STVAL, exceptionProgramCounter, cause),
                    previousMode)]

\* takeTrapHelper, lines 512-574: the trap handled in S-mode.
supervisorEntry(s, exceptionProgramCounter, previousMode, cause, isInterrupt) ==
    [s EXCEPT
        !.mode = Supervisor,
        !.pc = trapTarget(load_csr(s.csrs, STVEC), cause, isInterrupt),
        !.csrs = sstatusOnEntry(
                    trapRegisters(s.csrs, SEPC, SCAUSE, STVAL, exceptionProgramCounter, cause),
                    previousMode)]

\* takeTrapHelper, lines 576-631: the trap handled in M-mode.
machineEntry(s, exceptionProgramCounter, cause, isInterrupt) ==
    [s EXCEPT
        !.mode = Machine,
        !.pc = trapTarget(load_csr(s.csrs, MTVEC), cause, isInterrupt),
        !.csrs = mstatusOnEntry(
                    trapRegisters(s.csrs, MEPC, MCAUSE, MTVAL, exceptionProgramCounter, cause))]

\* takeTrapHelper from line 511 on, with the cause of lines 507-510.
enterTrap(s, cause, isInterrupt) ==
    IF delegated(s.csrs, s.mode, cause)
    THEN supervisorEntry(s, Sub(s.pc, N(4)), s.mode, cause, isInterrupt)
    ELSE machineEntry(s, Sub(s.pc, N(4)), cause, isInterrupt)

\* Cpu.takeTrapHelper: the hart s after the trap is taken.
takeTrapHelper(s, cause, isInterrupt) == enterTrap(s, trapCause(cause, isInterrupt), isInterrupt)

\* Cpu.takeTrap.
takeTrap(s, trap) == takeTrapHelper(s, N(trap.exceptionCode), trap.isInterrupt)

\* ------------------------------------------------------------ devices and bus

\* Address map (bus.ts, lines 15-36 and 102).  DRAM_BASE = 0x8000_0000 is
\* past TLC's integers and is written as [hi, lo].
CLINT_BASE == 33554432
CLINT_SIZE == 65536
PLIC_BASE == 201326592
PLIC_SIZE == 67108864
UART_BASE == 268435456
UART_SIZE == 256
VIRTIO_BASE == 268439552
VIRTIO_SIZE == 4096
DRAM_BASE == [hi |-> 32768, lo |-> 0]
DRAM_SIZE == 134217728

\* PLIC registers (part_003, lines 10-17).
PLIC_PENDING == PLIC_BASE + 4096
PLIC_SENABLE == PLIC_BASE + 8320
PLIC_SPRIORITY == PLIC_BASE + 2101248
PLIC_SCLAIM == PLIC_BASE + 2101252

\* Virtio registers (bus.ts, lines 212-230).
VIRTIO_DEVICE_FEATURES == VIRTIO_BASE + 16
VIRTIO_GUEST_PAGE_SIZE == VIRTIO_BASE + 40
VIRTIO_QUEUE_SEL == VIRTIO_BASE + 48
VIRTIO_QUEUE_NUM == VIRTIO_BASE + 56
VIRTIO_QUEUE_PFN == VIRTIO_BASE + 64
VIRTIO_QUEUE_NOTIFY == VIRTIO_BASE + 80
VIRTIO_STATUS == VIRTIO_BASE + 112

UART_IRQ == 10
VIRTIO_IRQ == 1

\* The UART line status register (uart.ts, line 25).
UART_LSR == UART_BASE + 5

\* The value of queue_notify that means "no notification".
NoNotify == 9999

\* The size of a virtqueue descriptor and the number of descriptors
\* (bus.ts, lines 199 and 201).
VRING_DESC_SIZE == 16
DESC_NUM == 8

\* A range test that also takes the first address past the range.
InRangeInclusive(address, base, size) == Le(N(base), address) /\ Le(address, N(base + size))

InRange(address, base, size) == Le(N(base), address) /\ Lt(address, N(base + size))

\* Uart.isInterrupting: the value returned, and the flag afterwards.
uartIsInterrupting(interrupting) == [ret |-> interrupting, interrupting |-> ~interrupting]

\* Virtio.isInterrupting: the value returned, and the device afterwards.
virtioIsInterrupting(v) ==
    IF v.queue_notify # NoNotify
    THEN [ret |-> TRUE, virtio |-> [v EXCEPT !.queue_notify = NoNotify]]
    ELSE [ret |-> FALSE, virtio |-> v]

\* Virtio.store32: a case without `break` runs into the cases below it.
virtioStore32(v, address, value) ==
    LET from ==
            IF address = N(VIRTIO_DEVICE_FEATURES) THEN 1
            ELSE IF address = N(VIRTIO_GUEST_PAGE_SIZE) THEN 2
            ELSE IF address = N(VIRTIO_QUEUE_SEL) THEN 3
            ELSE IF address = N(VIRTIO_QUEUE_NUM) THEN 4
            ELSE IF address = N(VIRTIO_QUEUE_PFN) THEN 5
            ELSE IF address = N(VIRTIO_QUEUE_NOTIFY) THEN 6
            ELSE IF address = N(VIRTIO_STATUS) THEN 7
            ELSE 8
    IN  [id |-> v.id,
         driver_features |-> IF from <= 1 THEN value ELSE v.driver_features,
         page_size |-> IF from <= 2 THEN value ELSE v.page_size,
         queue_sel |-> IF from <= 3 THEN value ELSE v.queue_sel,
         queue_num |-> IF from <= 4 THEN value ELSE v.queue_num,
         queue_pfn |-> IF from <= 5 THEN value ELSE v.queue_pfn,
         queue_notify |-> IF from <= 6 THEN value ELSE v.queue_notify,
         status |-> IF from <= 7 THEN value ELSE v.status]

\* Plic.store32.
plicStore32(p, address, value) ==
    IF address = N(PLIC_PENDING) THEN [p EXCEPT !.pending = value]
    ELSE IF address = N(PLIC_SENABLE) THEN [p EXCEPT !.senable = value]
    ELSE IF address = N(PLIC_SPRIORITY) THEN [p EXCEPT !.spriority = value]
    ELSE IF address = N(PLIC_SCLAIM) THEN [p EXCEPT !.sclaim = value]
    ELSE p

\* CLINT registers (clint.ts, lines 7 and 10).
CLINT_MTIMECMP == CLINT_BASE + 16384
CLINT_MTIME == CLINT_BASE + 49144

\* Clint.load64 and Clint.store64.
clintLoad64(c, address) ==
    IF address = N(CLINT_MTIMECMP) THEN c.mtimecmp
    ELSE IF address = N(CLINT_MTIME) THEN c.mtime
    ELSE 0

clintStore64(c, address, value) ==
    IF address = N(CLINT_MTIMECMP) THEN [c EXCEPT !.mtimecmp = value]
    ELSE IF address = N(CLINT_MTIME) THEN [c EXCEPT !.mtime = value]
    ELSE c

\* Plic.load32.
plicLoad32(p, address) ==
    IF address = N(PLIC_PENDING) THEN p.pending
    ELSE IF address = N(PLIC_SENABLE) THEN p.senable
    ELSE IF address = N(PLIC_SPRIORITY) THEN p.spriority
    ELSE IF address = N(PLIC_SCLAIM) THEN p.sclaim
    ELSE 0

\* Virtio.load32.
virtioLoad32(v, address) ==
    IF address = N(VIRTIO_BASE) THEN 1953655158
    ELSE IF address = N(VIRTIO_BASE + 4) THEN 1
    ELSE IF address = N(VIRTIO_BASE + 8) THEN 2
    ELSE IF address = N(VIRTIO_BASE + 12) THEN 1431127377
    ELSE IF address = N(VIRTIO_DEVICE_FEATURES) THEN 0
    ELSE IF address = N(VIRTIO_BASE + 32) THEN v.driver_features
    ELSE IF address = N(VIRTIO_BASE + 52) THEN 8
    ELSE IF address = N(VIRTIO_QUEUE_PFN) THEN v.queue_pfn
    ELSE IF address = N(VIRTIO_STATUS) THEN v.status
    ELSE 0

\* The bytes of Dram.dram this model keeps, as offsets into the buffer: at
\* 0x1000 the fields of two virtqueue descriptors (addr of the first, its
\* next, and addr, len and flags of the second), the low byte of a sector
\* number at 0x1028, four bytes of data at 0x1030, the id of the used ring
\* at 0x2002, and the last four bytes of the buffer.  The other bytes are
\* not tracked: they read as 0.
DramBytes ==
    (PAGE_SIZE .. (PAGE_SIZE + 7)) \cup ((PAGE_SIZE + 14) .. (PAGE_SIZE + 29))
        \cup {PAGE_SIZE + 40} \cup ((PAGE_SIZE + 48) .. (PAGE_SIZE + 51))
        \cup ((2 * PAGE_SIZE + 2) .. (2 * PAGE_SIZE + 3))
        \cup ((DRAM_SIZE - 4) .. (DRAM_SIZE - 1))

\* Byte k (0 the lowest) of the 32-bit pattern of v.
ByteOf(v, k) ==
    IF k = 0 THEN v.lo % 256
    ELSE IF k = 1 THEN v.lo \div 256
    ELSE IF k = 2 THEN (v.hi % Half) % 256
    ELSE (v.hi % Half) \div 256

\* The offset `address - DRAM_BASE` lies with `width` bytes inside the buffer.
InBuffer(index, width) == Le(N(0), index) /\ Le(Add(index, N(width)), N(DRAM_SIZE))

\* buffer.readu8/readu16/readu32(dram, index), little-endian, for an access
\* inside the buffer.
bufferRead(d, index, width) ==
    LET i == index.hi * Half + index.lo
        b(k) == IF k < width /\ (i + k) \in DOMAIN d THEN d[i + k] ELSE 0
    IN  [hi |-> b(2) + 256 * b(3), lo |-> b(0) + 256 * b(1)]

\* buffer.writeu8/writeu16/writeu32(dram, index, value): the low `width`
\* bytes of value, little-endian; an access outside the buffer is a Luau
\* error and writes nothing.
bufferWrite(d, index, width, value) ==
    IF ~InBuffer(index, width)
    THEN [ok |-> FALSE, dram |-> d]
    ELSE LET i == index.hi * Half + index.lo
         IN  [ok |-> TRUE,
              dram |-> [j \in DOMAIN d |->
                          IF j >= i /\ j < i + width THEN ByteOf(value, j - i) ELSE d[j]]]

\* Dram.load: "ok" and the value, the trap for a size that is no case of the
\* switch, or "error" for the string load64 throws and for an access outside
\* the buffer.
dramLoad(d, address, size) ==
    IF size \in {8, 16, 32}
    THEN IF InBuffer(Sub(address, DRAM_BASE), size \div 8)
         THEN [status |-> "ok", value |-> bufferRead(d, Sub(address, DRAM_BASE), size \div 8)]
         ELSE [status |-> "error", value |-> N(0)]
    ELSE IF size = 64 THEN [status |-> "error", value |-> N(0)]
    ELSE [status |-> "LoadAccessFault", value |-> N(0)]

\* The stores one call of Dram.store runs through: no case of its switch has
\* a break, so `case 8` runs store8, store16, store32 and store64, `case 16`
\* store16, store32 and store64, and so on; store64 throws a string.
RECURSIVE dramStores(_, _, _, _)
dramStores(d, index, widths, value) ==
    IF widths = <<>>
    THEN d
    ELSE LET w == bufferWrite(d, index, Head(widths), value)
         IN  IF w.ok THEN dramStores(w.dram, index, Tail(widths), value) ELSE w.dram

\* Dram.store: the status (never "ok") and the bytes afterwards.
dramStore(d, address, size, value) ==
    IF size \in {8, 16, 32, 64}
    THEN [status |-> "error",
          dram |-> dramStores(d, Sub(address, DRAM_BASE),
                              IF size = 8 THEN <<1, 2, 4>>
                              ELSE IF size = 16 THEN <<2, 4>>
                              ELSE IF size = 32 THEN <<4>>
                              ELSE <<>>,
                              value)]
    ELSE [status |-> "StoreAMOAccessFault", dram |-> d]

\* Bus.load and Bus.store, lines 58-70 and 78-90: the device the access is
\* handed to, "none" when it falls through to the throw.
busDevice(address) ==
    IF InRange(address, CLINT_BASE, CLINT_SIZE) THEN "clint"
    ELSE IF InRange(address, PLIC_BASE, PLIC_SIZE) THEN "plic"
    ELSE IF InRange(address, UART_BASE, UART_SIZE) THEN "uart"
    ELSE IF InRange(address, VIRTIO_BASE, VIRTIO_SIZE) THEN "virtio"
    ELSE IF Le(DRAM_BASE, address) THEN "dram"
    ELSE "none"

\* Bus.load, as far as whether it returns: "ok", the trap "LoadAccessFault",
\* or "error" for a Luau error that is no trap (the string Dram.load64
\* throws, a buffer access out of bounds).
busLoadStatus(address, size) ==
    IF InRange(address, CLINT_BASE, CLINT_SIZE)
    THEN IF size = 64 THEN "ok" ELSE "LoadAccessFault"
    ELSE IF InRange(address, PLIC_BASE, PLIC_SIZE)
    THEN IF size = 32 THEN "ok" ELSE "LoadAccessFault"
    ELSE IF InRange(address, UART_BASE, UART_SIZE)
    THEN "LoadAccessFault"
    ELSE IF InRange(address, VIRTIO_BASE, VIRTIO_SIZE)
    THEN IF size = 32 THEN "ok" ELSE "LoadAccessFault"
    ELSE IF Le(DRAM_BASE, address)
    THEN IF size \in {8, 16, 32}
         THEN IF Le(Add(Sub(address, DRAM_BASE), N(size \div 8)), N(DRAM_SIZE))
              THEN "ok" ELSE "error"
         ELSE IF size = 64 THEN "error" ELSE "LoadAccessFault"
    ELSE "LoadAccessFault"

\* Bus.load: the status of busLoadStatus and, when it is "ok", the value
\* returned, as a number [hi, lo].  Device registers hold the integers
\* stored to them.
busLoad(s, address, size) ==
    [status |-> busLoadStatus(address, size),
     value |->
        IF busLoadStatus(address, size) # "ok" THEN N(0)
        ELSE IF busDevice(address) = "clint" THEN N(clintLoad64(s.clint, address))
        ELSE IF busDevice(address) = "plic" THEN N(plicLoad32(s.plic, address))
        ELSE IF busDevice(address) = "virtio" THEN N(virtioLoad32(s.virtio, address))
        ELSE dramLoad(s.dram, address, size).value]

\* Bus.store: the status and the hart afterwards.  A store that reaches the
\* DRAM never returns (Dram.store runs from its size case into store64,
\* which throws), but the stores before store64 have written their bytes.
busStore(s, address, size, value) ==
    IF InRange(address, CLINT_BASE, CLINT_SIZE)
    THEN IF size = 64
         THEN [status |-> "ok", s |-> [s EXCEPT !.clint = clintStore64(s.clint, address, value)]]
         ELSE [status |-> "StoreAMOAccessFault", s |-> s]
    ELSE IF InRange(address, PLIC_BASE, PLIC_SIZE)
    THEN IF size = 32
         THEN [status |-> "ok", s |-> [s EXCEPT !.plic = plicStore32(s.plic, address, value)]]
         ELSE [status |-> "StoreAMOAccessFault", s |-> s]
    ELSE IF InRange(address, UART_BASE, UART_SIZE)
    THEN [status |-> "StoreAMOAccessFault", s |-> s]
    ELSE IF InRange(address, VIRTIO_BASE, VIRTIO_SIZE)
    THEN IF size = 32
         THEN [status |-> "ok", s |-> [s EXCEPT !.virtio = virtioStore32(s.virtio, address, value)]]
         ELSE [status |-> "StoreAMOAccessFault", s |-> s]
    ELSE IF Le(DRAM_BASE, address)
    THEN [status |-> dramStore(s.dram, address, size, value).status,
          s |-> [s EXCEPT !.dram = dramStore(s.dram, address, size, value).dram]]
    ELSE [status |-> "StoreAMOAccessFault", s |-> s]

\* Virtio.desc_addr: queue_pfn * page_size, a product of doubles.
descAddr(v) == MulI(v.page_size, N(v.queue_pfn))

\* The tracked bytes of the disk image, and the length of the image: the
\* first bytes of sectors 0 and 1 of an image of two sectors.
DiskBytes == (0 .. 3) \cup (512 .. 515)
DiskLength == 2 * 512

\* Virtio.read_disk and Virtio.write_disk: buffer.readu8 and buffer.writeu8
\* on the image; an access outside the image is a Luau error.
InDisk(address) == Le(N(0), address) /\ Lt(address, N(DiskLength))

read_disk(disk, address) ==
    IF (address.hi * Half + address.lo) \in DOMAIN disk
    THEN disk[address.hi * Half + address.lo]
    ELSE 0

write_disk(disk, address, value) ==
    [j \in DOMAIN disk |-> IF j = address.hi * Half + address.lo THEN ByteOf(value, 0) ELSE disk[j]]

\* A bus access of diskAccess threw: the exception leaves diskAccess.
diskThrown(s) == [status |-> "throws", s |-> s]

RECURSIVE diskWriteLoop(_, _, _, _, _)
RECURSIVE diskReadLoop(_, _, _, _, _)

\* diskAccess, lines 471-472: data is what bus.load(addr1 + i, 8) did.
diskWritten(s, addr1, blk_sector, len1, i, data) ==
    IF data.status # "ok" \/ ~InDisk(Add(MulI(512, blk_sector), N(i)))
    THEN diskThrown(s)
    ELSE diskWriteLoop([s EXCEPT !.disk = write_disk(s.disk, Add(MulI(512, blk_sector), N(i)),
                                                     data.value)],
                       addr1, blk_sector, len1, i + 1)

\* diskAccess, lines 470-473: the loop from i on, copying the DRAM to the disk.
diskWriteLoop(s, addr1, blk_sector, len1, i) ==
    IF ~Lt(N(i), len1)
    THEN [status |-> "ok", s |-> s]
    ELSE diskWritten(s, addr1, blk_sector, len1, i, busLoad(s, Add(addr1, N(i)), 8))

\* diskAccess, line 484: stored is what bus.store(addr1 + i, 8, data) did.
diskStored(stored, addr1, blk_sector, len1, i) ==
    IF stored.status # "ok"
    THEN diskThrown(stored.s)
    ELSE diskReadLoop(stored.s, addr1, blk_sector, len1, i + 1)

\* diskAccess, lines 482-485: the loop from i on, copying the disk to the DRAM.
diskReadLoop(s, addr1, blk_sector, len1, i) ==
    IF ~Lt(N(i), len1)
    THEN [status |-> "ok", s |-> s]
    ELSE IF ~InDisk(Add(MulI(512, blk_sector), N(i)))
    THEN diskThrown(s)
    ELSE diskStored(busStore(s, Add(addr1, N(i)), 8,
                             N(read_disk(s.disk, Add(MulI(512, blk_sector), N(i))))),
                    addr1, blk_sector, len1, i)

\* diskAccess, lines 494-495: get_new_id increments the id and returns it;
\* stored is what bus.store(used_addr + 2, 16, new_id % 8) did.
diskUsedStored(stored) ==
    [status |-> IF stored.status = "ok" THEN "ok" ELSE "throws", s |-> stored.s]

diskUsed(copied, used_addr) ==
    IF copied.status # "ok"
    THEN copied
    ELSE diskUsedStored(busStore([copied.s EXCEPT !.virtio.id = @ + 1], Add(used_addr, N(2)), 16,
                                 N((copied.s.virtio.id + 1) % 8)))

\* diskAccess, lines 450-486: the second descriptor and the sector have been
\* loaded; the direction is bit 1 of flags1.
diskTransfer(s, desc_addr, addr1, len1, flags1, blk_sector) ==
    IF addr1.status # "ok" \/ len1.status # "ok" \/ flags1.status # "ok"
          \/ blk_sector.status # "ok"
    THEN diskThrown(s)
    ELSE diskUsed(IF BitOf(flags1.value, 1) = 0
                  THEN diskWriteLoop(s, addr1.value, blk_sector.value, len1.value, 0)
                  ELSE diskReadLoop(s, addr1.value, blk_sector.value, len1.value, 0),
                  Add(desc_addr, N(4096)))

\* diskAccess, lines 437-459: addr0 and next0 are what the loads of the
\* first descriptor did.
diskChained(s, desc_addr, addr0, next0) ==
    IF addr0.status # "ok" \/ next0.status # "ok"
    THEN diskThrown(s)
    ELSE diskTransfer(s, desc_addr,
                      busLoad(s, Add(desc_addr, MulI(VRING_DESC_SIZE, next0.value)), 64),
                      busLoad(s, Add(Add(desc_addr, MulI(VRING_DESC_SIZE, next0.value)), N(8)), 32),
                      busLoad(s, Add(Add(desc_addr, MulI(VRING_DESC_SIZE, next0.value)), N(12)), 16),
                      busLoad(s, Add(addr0.value, N(8)), 64))

\* diskAccess, lines 433-446: index is what the load of avail[2 ...] did.
diskIndexed(s, desc_addr, index) ==
    IF index.status # "ok"
    THEN diskThrown(s)
    ELSE diskChained(s, desc_addr,
                     busLoad(s, Add(desc_addr, MulI(VRING_DESC_SIZE, index.value)), 64),
                     busLoad(s, Add(Add(desc_addr, MulI(VRING_DESC_SIZE, index.value)), N(14)), 16))

\* diskAccess, lines 430-433: offset is what the load of avail[1] did.
diskOffset(s, desc_addr, offset) ==
    IF offset.status # "ok"
    THEN diskThrown(s)
    ELSE diskIndexed(s, desc_addr,
                     busLoad(s, Add(desc_addr, N(64 + (offset.value.lo % DESC_NUM) + 2)), 16))

\* Cpu.diskAccess: "ok" when it returns, "throws" when one of its bus
\* accesses throws, and the hart afterwards.  The load of avail[1] is a
\* 16-bit load, which only the DRAM takes; the load of the first descriptor
\* is a 64-bit load at an address not below the first, which reaches the
\* DRAM again (Dram.load64 throws) or no device.
diskAccess(s) == diskOffset(s, descAddr(s.virtio), busLoad(s, Add(descAddr(s.virtio), N(65)), 16))

\* ------------------------------------------------------------ interrupt poll

\* A mode gate that stops no poll.
modeGateOpen(buf, mode) == FALSE

\* checkPendingInterrupt, lines 118-133: TRUE when the poll returns
\* `undefined` at the switch on the mode.  `case Mode.Machine` has no break
\* and runs into `case Mode.Supervisor`.
modeGate(buf, mode) ==
    IF mode = Machine
    THEN \/ band(arshift(load_csr(buf, MSTATUS), 3), N(1)) = N(0)
         \/ band(arshift(load_csr(buf, SSTATUS), 1), N(1)) = N(0)
    ELSE IF mode = Supervisor
    THEN band(arshift(load_csr(buf, SSTATUS), 1), N(1)) = N(0)
    ELSE FALSE

\* checkPendingInterrupt, lines 148-151: irq is written to the PLIC claim
\* register (c is what bus.store did) and mip.SEIP is set.
claimExternal(c, irq) ==
    IF c.status # "ok"
    THEN [status |-> c.status, irq |-> irq, s |-> c.s]
    ELSE [status |-> "ok", irq |-> irq,
          s |-> [c.s EXCEPT !.csrs = setBits(c.s.csrs, MIP, N(MIP_SEIP))]]

raiseExternal(s, irq) == claimExternal(busStore(s, N(PLIC_SCLAIM), 32, irq), irq)

\* checkPendingInterrupt, lines 139-143: d is what diskAccess did.
afterDiskAccess(d) ==
    IF d.status # "ok"
    THEN [status |-> d.status, irq |-> VIRTIO_IRQ, s |-> d.s]
    ELSE raiseExternal(d.s, VIRTIO_IRQ)

\* checkPendingInterrupt, lines 139-146: the UART did not interrupt; v is
\* what virtio.isInterrupting returned.
scanVirtio(s, v) ==
    IF v.ret
    THEN afterDiskAccess(diskAccess([s EXCEPT !.virtio = v.virtio]))
    ELSE [status |-> "ok", irq |-> 0, s |-> s]

\* checkPendingInterrupt, lines 137-146: u is what uart.isInterrupting
\* returned.
scanUart(s, u) ==
    IF u.ret
    THEN raiseExternal([s EXCEPT !.uart = u.interrupting], UART_IRQ)
    ELSE scanVirtio([s EXCEPT !.uart = u.interrupting], virtioIsInterrupting(s.virtio))

\* checkPendingInterrupt, lines 136-151: the scan of the devices.  status is
\* "ok" or what the scan threw; irq is the number chosen.
externalScan(s) == scanUart(s, uartIsInterrupting(s.uart))

\* A variant of clearPending that clears the whole of mip.
clearPendingAll(buf, BIT) == store_csr(buf, MIP, N(0))

\* One `if ((pending & BIT) !== 0)` of lines 163-186: the store that clears BIT.
clearPending(buf, BIT) == clearBits(buf, MIP, N(BIT))

\* checkPendingInterrupt, lines 163-188: the interrupt returned for `pending`
\* and the CSRs afterwards.
firstPending(buf, pending) ==
    IF band(pending, N(MIP_MEIP)) # N(0)
    THEN [ret |-> InterruptTrap(MachineExternalInterrupt), csrs |-> clearPending(buf, MIP_MEIP)]
    ELSE IF band(pending, N(MIP_MSIP)) # N(0)
    THEN [ret |-> InterruptTrap(MachineSoftwareInterrupt), csrs |-> clearPending(buf, MIP_MSIP)]
    ELSE IF band(pending, N(MIP_MTIP)) # N(0)
    THEN [ret |-> InterruptTrap(MachineTimerInterrupt), csrs |-> clearPending(buf, MIP_MTIP)]
    ELSE IF band(pending, N(MIP_SEIP)) # N(0)
    THEN [ret |-> InterruptTrap(SupervisorExternalInterrupt), csrs |-> clearPending(buf, MIP_SEIP)]
    ELSE IF band(pending, N(MIP_SSIP)) # N(0)
    THEN [ret |-> InterruptTrap(SupervisorSoftwareInterrupt), csrs |-> clearPending(buf, MIP_SSIP)]
    ELSE IF band(pending, N(MIP_STIP)) # N(0)
    THEN [ret |-> InterruptTrap(SupervisorTimerInterrupt), csrs |-> clearPending(buf, MIP_STIP)]
    ELSE [ret |-> NoTrap, csrs |-> buf]

\* checkPendingInterrupt, lines 161-188.
pendingInterrupt(buf) == firstPending(buf, band(load_csr(buf, MIE), load_csr(buf, MIP)))

\* checkPendingInterrupt after the device scan `scan`, p being what lines
\* 161-188 return.
pollReturned(scan, p) ==
    [outcome |-> "returned", ret |-> p.ret, irq |-> scan.irq,
     scanned |-> scan.s, s |-> [scan.s EXCEPT !.csrs = p.csrs]]

afterScan(scan) ==
    IF scan.status # "ok"
    THEN [outcome |-> "throws", ret |-> NoTrap, irq |-> scan.irq, scanned |-> scan.s, s |-> scan.s]
    ELSE pollReturned(scan, pendingInterrupt(scan.s.csrs))

\* A variant of checkPendingInterrupt that scans the devices before the
\* mode gate.
checkPendingInterruptScansFirst(s) ==
    IF modeGate(s.csrs, s.mode)
    THEN [outcome |-> "gated", ret |-> NoTrap, irq |-> 0, scanned |-> s, s |-> externalScan(s).s]
    ELSE afterScan(externalScan(s))

\* Cpu.checkPendingInterrupt.  outcome is "gated" (returned at the switch),
\* "returned" (ran to one of the later returns) or "throws"; scanned is the
\* hart after the device scan, before `pending` is computed.
checkPendingInterrupt(s) ==
    IF modeGate(s.csrs, s.mode)
    THEN [outcome |-> "gated", ret |-> NoTrap, irq |-> 0, scanned |-> s, s |-> s]
    ELSE afterScan(externalScan(s))

\* ------------------------------------------------------------ fetch, execute, step

\* Cpu.update_paging: the cached root page table and paging flag, recomputed
\* from satp.  (1 << 44) - 1 is bit32.lshift(1, 44) - 1 = -1, which bit32.band
\* takes as 0xFFFF_FFFF; satp >> 60 is bit32.arshift by more than 31 places.
update_paging(s, csrAddress) ==
    IF csrAddress # SATP
    THEN s
    ELSE [s EXCEPT
            !.pageTable = MulI(PAGE_SIZE,
                               band(load_csr(s.csrs, SATP), Sub(lshift(N(1), 44), N(1)))),
            !.enablePaging = (arshift(load_csr(s.csrs, SATP), 60) = N(8))]

\* translate, line 223: vpn[k] of the address.
vpn(address, k) == band(arshift(address, 12 + 9 * k), N(511))

\* The literal 0x0fff_ffff_ffff of lines 262 and 307.
PpnMask == [hi |-> 268435455, lo |-> 65535]

\* translate, line 277: the three fields ppn[k] of the leaf PTE.
leafPpn(pte, k) ==
    IF k = 0 THEN band(arshift(pte, 10), N(511))
    ELSE IF k = 1 THEN band(arshift(pte, 19), N(511))
    ELSE band(arshift(pte, 28), N(67108863))

\* translate, lines 303-318: the address returned for a leaf PTE found at
\* level i.
leafAddress(address, pte, i) ==
    IF i = 0
    THEN bor(lshift(band(arshift(pte, 10), PpnMask), 12), band(address, N(4095)))
    ELSE IF i = 1
    THEN bor(bor(bor(lshift(leafPpn(pte, 2), 30), lshift(leafPpn(pte, 1), 21)),
                 lshift(vpn(address, 0), 12)),
             band(address, N(4095)))
    ELSE bor(bor(bor(lshift(leafPpn(pte, 2), 30), lshift(vpn(address, 1), 21)),
                 lshift(vpn(address, 0), 12)),
             band(address, N(4095)))

\* The switch on the access type of lines 243-250, 265-272 and 320-327.
pageFault(accessType) ==
    [status |-> IF accessType = "Instruction" THEN "InstructionPageFault"
                ELSE IF accessType = "Load" THEN "LoadPageFault"
                ELSE "StoreAMOPageFault",
     address |-> N(0)]

RECURSIVE walkLevel(_, _, _, _, _)

\* The outcome r of a walk, with the number of page-table entries loaded.
counted(r, loads) == [status |-> r.status, address |-> r.address, loads |-> loads]

\* A variant of walkPte that gives up one level later, below level 0.
walkPteOneLevelMore(s, address, accessType, i, pte) ==
    IF pte.status # "ok"
    THEN counted([status |-> pte.status, address |-> N(0)], 1)
    ELSE IF BitOf(pte.value, 0) = 0 \/ (BitOf(pte.value, 1) = 0 /\ BitOf(pte.value, 2) = 1)
    THEN counted(pageFault(accessType), 1)
    ELSE IF BitOf(pte.value, 1) = 1 \/ BitOf(pte.value, 3) = 1
    THEN counted([status |-> "ok", address |-> leafAddress(address, pte.value, i)], 1)
    ELSE IF i - 1 < -1
    THEN counted(pageFault(accessType), 1)
    ELSE LET rest == walkLevel(s, address, accessType,
                               MulI(PAGE_SIZE, band(arshift(pte.value, 10), PpnMask)), i - 1)
         IN  counted(rest, rest.loads + 1)

\* translate, lines 238-273: pte is what bus.load(a + vpn[i] * 8, 64) did.
\* What the bus throws leaves translate as it is.  loads counts the calls of
\* bus.load of line 234, this one and those of the later turns of the loop.
walkPte(s, address, accessType, i, pte) ==
    IF pte.status # "ok"
    THEN counted([status |-> pte.status, address |-> N(0)], 1)
    ELSE IF BitOf(pte.value, 0) = 0 \/ (BitOf(pte.value, 1) = 0 /\ BitOf(pte.value, 2) = 1)
    THEN counted(pageFault(accessType), 1)
    ELSE IF BitOf(pte.value, 1) = 1 \/ BitOf(pte.value, 3) = 1
    THEN counted([status |-> "ok", address |-> leafAddress(address, pte.value, i)], 1)
    ELSE IF i - 1 < 0
    THEN counted(pageFault(accessType), 1)
    ELSE LET rest == walkLevel(s, address, accessType,
                               MulI(PAGE_SIZE, band(arshift(pte.value, 10), PpnMask)), i - 1)
         IN  counted(rest, rest.loads + 1)

\* translate, lines 230-274: one turn of the loop, at table a and level i.
walkLevel(s, address, accessType, a, i) ==
    walkPte(s, address, accessType, i, busLoad(s, Add(a, MulI(8, vpn(address, i))), 64))

\* translate, lines 218-330: the page-table walk from the cached root.
walk(s, address, accessType) == walkLevel(s, address, accessType, s.pageTable, 2)

\* Cpu.translate: "ok" and the physical address, or what it throws.
translate(s, address, accessType) ==
    IF ~s.enablePaging
    THEN [status |-> "ok", address |-> address, loads |-> 0]
    ELSE walk(s, address, accessType)

\* Cpu.fetch, as far as whether it returns: "ok", or what it throws.  Whatever
\* bus.load throws is caught and replaced by InstructionAccessFault.
fetch(s) ==
    LET p_pc == translate(s, s.pc, "Instruction") IN
    IF p_pc.status # "ok" THEN p_pc.status
    ELSE IF busLoadStatus(p_pc.address, 32) # "ok" THEN "InstructionAccessFault"
    ELSE "ok"

\* What an instruction does when executed.  Cpu.execute is an empty stub in
\* the source ("TODO: implement execute"); "nop" is that stub.  The other
\* kinds stand for the semantic handlers of section 4.10 of the
\* specification: an instruction that raises an exception, and mret / sret,
\* which restore xIE from xPIE and set the mode from xPP.
Instructions ==
    {[kind |-> "nop", code |-> -1], [kind |-> "mret", code |-> -1], [kind |-> "sret", code |-> -1]}
        \cup {[kind |-> "raise", code |-> c] : c \in ExceptionCodes}

\* mret: mstatus.MIE := mstatus.MPIE, mode := mstatus.MPP.
mret(s) ==
    LET m == load_csr(s.csrs, MSTATUS)
        mpp == 2 * BitOf(m, 12) + BitOf(m, 11)
        m1 == IF BitOf(m, 7) = 1 THEN bor(m, N(8)) ELSE band(m, bnot(N(8)))
    IN  [s EXCEPT !.mode = mpp, !.csrs = store_csr(s.csrs, MSTATUS, m1)]

\* sret: sstatus.SIE := sstatus.SPIE, mode := sstatus.SPP.
sret(s) ==
    LET m == load_csr(s.csrs, SSTATUS)
        m1 == IF BitOf(m, 5) = 1 THEN bor(m, N(2)) ELSE band(m, bnot(N(2)))
    IN  [s EXCEPT !.mode = BitOf(m, 8), !.csrs = store_csr(s.csrs, SSTATUS, m1)]

\* Cpu.execute: the exception raised (NoTrap if none) and the hart afterwards.
execute(s, instruction) ==
    IF instruction.kind = "raise" THEN [raised |-> ExceptionTrap(instruction.code), s |-> s]
    ELSE IF instruction.kind = "mret" THEN [raised |-> NoTrap, s |-> mret(s)]
    ELSE IF instruction.kind = "sret" THEN [raised |-> NoTrap, s |-> sret(s)]
    ELSE [raised |-> NoTrap, s |-> s]

\* What one call of an operation did, for the properties below.
NoObs ==
    [result |-> "none", fetch |-> "none", trap |-> NoTrap, excTaken |-> FALSE,
     pollRan |-> FALSE, poll |-> "none", pollRet |-> NoTrap, irq |-> 0,
     intTaken |-> FALSE, address |-> 0, value |-> N(0),
     target |-> N(0), size |-> 0, status |-> "none", device |-> "none", loaded |-> N(0),
     stored |-> 0, notified |-> FALSE, access |-> "none", loads |-> 0]

\* step, lines 404-409: p is what the poll did; e the execution, caught
\* whether it raised, at the hart when the poll was entered.
stepPolled(e, caught, a, p) ==
    [s |-> IF p.ret # NoTrap THEN takeTrap(p.s, p.ret) ELSE p.s,
     at |-> a, scanned |-> p.scanned,
     obs |-> [NoObs EXCEPT
                !.result = IF p.outcome = "throws" THEN "throws" ELSE "continue",
                !.fetch = "ok", !.trap = e.raised, !.excTaken = caught,
                !.pollRan = TRUE, !.poll = p.outcome, !.pollRet = p.ret,
                !.irq = p.irq, !.intTaken = (p.ret # NoTrap)]]

\* step, lines 398-404: s2 is the hart after the try statement.
stepCaught(e, caught, s2) ==
    IF caught /\ isFatal(e.raised.exceptionCode)
    THEN [s |-> s2, at |-> s2, scanned |-> s2,
          obs |-> [NoObs EXCEPT !.result = "halt", !.fetch = "ok",
                                 !.trap = e.raised, !.excTaken = TRUE]]
    ELSE stepPolled(e, caught, s2, checkPendingInterrupt(s2))

\* step, lines 393-397: e is what execute did.
stepExecuted(e) ==
    stepCaught(e, e.raised # NoTrap, IF e.raised # NoTrap THEN takeTrap(e.s, e.raised) ELSE e.s)

\* step, lines 387-394: f is what fetch did.
stepFetched(s, f, instruction) ==
    IF f # "ok"
    THEN [s |-> s, at |-> s, scanned |-> s,
          obs |-> [NoObs EXCEPT !.result = "throws", !.fetch = f]]
    ELSE stepExecuted(execute([s EXCEPT !.pc = Add(s.pc, N(4))], instruction))

\* Cpu.step (lines 384-410) on an instruction that executes as `instruction`.
\* result is "continue" (return true), "halt" (return false) or "throws" (an
\* exception leaves step()).  at is the hart when the poll is entered and
\* scanned the hart after the poll's device scan.
step(s, instruction) == stepFetched(s, fetch(s), instruction)

\* ------------------------------------------------------------ state

VARIABLES
    registers,       \* Cpu.registers: the 32 integer registers
    csrs,            \* Cpu.csrs: the bytes of the CSR buffer
    mode,            \* Cpu.mode
    programCounter,  \* Cpu.programCounter
    enablePaging,    \* Cpu.enablePaging
    pageTable,       \* Cpu.pageTable
    uart,            \* Uart.interrupting
    virtio,          \* the fields of Virtio
    plic,            \* the fields of Plic
    clint,           \* the fields of Clint
    dram,            \* the tracked bytes of Dram.dram
    disk,            \* the tracked bytes of Virtio.disk
    notified,        \* history: QUEUE_NOTIFY was stored to since diskAccess last ran
    op,              \* the operation called last
    pre,             \* the hart when it was called
    at,              \* the hart when its interrupt poll was entered
    scanned,         \* the hart after the device scan of that poll
    obs,             \* what the operation did
    calls            \* the number of calls so far

vars ==
    <<registers, csrs, mode, programCounter, enablePaging, pageTable, uart, virtio, plic,
      clint, dram, disk, notified, op, pre, at, scanned, obs, calls>>

\* The hart and its devices as one value.
Cur ==
    [registers |-> registers, csrs |-> csrs, mode |-> mode, pc |-> programCounter, enablePaging |-> enablePaging,
     pageTable |-> pageTable, uart |-> uart, virtio |-> virtio, plic |-> plic,
     clint |-> clint, dram |-> dram, disk |-> disk]

\* A constructor that writes the initial value to slot 0 instead of slot 3.
initialRegistersSlotZero ==
    [i \in 0 .. 31 |-> IF i = 0 THEN Add(DRAM_BASE, N(DRAM_SIZE)) ELSE N(0)]

\* Cpu.constructor, lines 108-109: the register buffer is created zero and
\* DRAM_BASE + DRAM_SIZE is written at byte 4 * 3.
initialRegisters ==
    [i \in 0 .. 31 |-> IF i = 3 THEN Add(DRAM_BASE, N(DRAM_SIZE)) ELSE N(0)]

\* The state after `new Cpu(binary, diskImage)`, both images zero.
Constructed ==
    [registers |-> initialRegisters, csrs |-> [i \in CsrBytes |-> 0], mode |-> Machine, pc |-> DRAM_BASE,
     enablePaging |-> FALSE, pageTable |-> N(0), uart |-> FALSE,
     virtio |-> [id |-> 0, driver_features |-> 0, page_size |-> 0, queue_sel |-> 0,
                 queue_num |-> 0, queue_pfn |-> 0, queue_notify |-> NoNotify, status |-> 0],
     plic |-> [pending |-> 0, senable |-> 0, spriority |-> 0, sclaim |-> 0],
     clint |-> [mtime |-> 0, mtimecmp |-> 0],
     dram |-> [i \in DramBytes |-> 0],
     disk |-> [i \in DiskBytes |-> 0]]

\* The variables after the construction of the hart c.
InitAs(c) ==
    /\ registers = c.registers
    /\ csrs = c.csrs
    /\ mode = c.mode
    /\ programCounter = c.pc
    /\ enablePaging = c.enablePaging
    /\ pageTable = c.pageTable
    /\ uart = c.uart
    /\ virtio = c.virtio
    /\ plic = c.plic
    /\ clint = c.clint
    /\ dram = c.dram
    /\ disk = c.disk
    /\ notified = FALSE
    /\ op = "new"
    /\ pre = c
    /\ at = c
    /\ scanned = c
    /\ obs = NoObs
    /\ calls = 0

Init == InitAs(Constructed)

\* The call `name` took the hart from Cur to s.
Called(name, s, a, sc, o) ==
    /\ registers' = s.registers
    /\ csrs' = s.csrs
    /\ mode' = s.mode
    /\ programCounter' = s.pc
    /\ enablePaging' = s.enablePaging
    /\ pageTable' = s.pageTable
    /\ uart' = s.uart
    /\ virtio' = s.virtio
    /\ plic' = s.plic
    /\ clint' = s.clint
    /\ dram' = s.dram
    /\ disk' = s.disk
    /\ notified' =
          IF o.irq = VIRTIO_IRQ THEN FALSE
          ELSE IF name = "store" /\ o.target = N(VIRTIO_QUEUE_NOTIFY) /\ o.size = 32
          THEN TRUE
          ELSE notified
    /\ op' = name
    /\ pre' = Cur
    /\ at' = a
    /\ scanned' = sc
    /\ obs' = [o EXCEPT !.notified = notified]
    /\ calls' = calls + 1

\* ------------------------------------------------------------ bounds

\* The number of calls in one run.
MaxCalls == 3

\* ------------------------------------------------------------ operations

\* cpu.store_csr(address, value), called before any other operation.
StoreCsr(address, value) ==
    /\ op \in {"new", "store_csr", "update_paging"}
    /\ LET s == [Cur EXCEPT !.csrs = store_csr(csrs, address, value)]
       IN  Called("store_csr", s, s, s, [NoObs EXCEPT !.address = address, !.value = value])

\* cpu.update_paging(csrAddress).
UpdatePaging(csrAddress) ==
    /\ LET s == update_paging(Cur, csrAddress)
       IN  Called("update_paging", s, s, s, [NoObs EXCEPT !.address = csrAddress])

\* cpu.takeTrap(trap).
TakeTrap(trap) ==
    /\ LET s == takeTrap(Cur, trap)
       IN  Called("takeTrap", s, s, s, [NoObs EXCEPT !.trap = trap])

\* cpu.checkPendingInterrupt().
CheckPendingInterrupt ==
    /\ LET p == checkPendingInterrupt(Cur)
       IN  Called("checkPendingInterrupt", p.s, Cur, p.scanned,
                  [NoObs EXCEPT !.result = IF p.outcome = "throws" THEN "throws" ELSE "returns",
                                !.pollRan = TRUE, !.poll = p.outcome, !.pollRet = p.ret,
                                !.irq = p.irq])

\* cpu.step(), the instruction at the program counter executing as `instruction`.
Step(instruction) ==
    /\ instruction.kind = "mret" =>
          2 * BitOf(load_csr(csrs, MSTATUS), 12) + BitOf(load_csr(csrs, MSTATUS), 11)
              \in {User, Supervisor, Machine}
    /\ LET r == step(Cur, instruction)
       IN  Called("step", r.s, r.at, r.scanned, r.obs)

\* The host terminal asserts the UART interrupt line (uart.interrupting = true).
UartAssert ==
    /\ ~uart
    /\ LET s == [Cur EXCEPT !.uart = TRUE]
       IN  Called("uartAssert", s, s, s, NoObs)

\* cpu.load(address, size): Cpu.load translates the address and hands the
\* load to the bus.  status is "ok" or what the load threw, loaded the value
\* returned, device the device the bus handed it to.
Load(address, size) ==
    /\ translate(Cur, address, "Load").status = "ok"
    /\ LET r == busLoad(Cur, translate(Cur, address, "Load").address, size)
       IN  Called("load", Cur, Cur, Cur,
                  [NoObs EXCEPT !.result = IF r.status = "ok" THEN "returns" ELSE "throws",
                                !.status = r.status, !.target = address, !.size = size,
                                !.device = busDevice(translate(Cur, address, "Load").address),
                                !.loaded = r.value])

\* cpu.store(address, size, value): Cpu.store translates the address and
\* hands the store to the bus.
Store(address, size, value) ==
    /\ translate(Cur, address, "Store").status = "ok"
    /\ LET r == busStore(Cur, translate(Cur, address, "Store").address, size, value)
       IN  Called("store", r.s, r.s, r.s,
                  [NoObs EXCEPT !.result = IF r.status = "ok" THEN "returns" ELSE "throws",
                                !.status = r.status, !.target = address, !.size = size,
                                !.device = busDevice(translate(Cur, address, "Store").address),
                                !.stored = value])

\* cpu.store(address, 32, value) of a device register.
Store32(address, value) == Store(N(address), 32, value)

\* cpu.translate(address, accessType).  loaded is the address returned and
\* loads the number of page-table entries the call loaded.
Translate(address, accessType) ==
    /\ LET r == translate(Cur, address, accessType)
       IN  Called("translate", Cur, Cur, Cur,
                  [NoObs EXCEPT !.result = IF r.status = "ok" THEN "returns" ELSE "throws",
                                !.status = r.status, !.target = address,
                                !.access = accessType, !.loaded = r.address,
                                !.loads = r.loads])

\* The page-table walk of translate (lines 218-330) run on the current
\* hart: what translate does once enablePaging is set.
TranslateWalk(address, accessType) ==
    /\ LET r == walk(Cur, address, accessType)
       IN  Called("walk", Cur, Cur, Cur,
                  [NoObs EXCEPT !.result = IF r.status = "ok" THEN "returns" ELSE "throws",
                                !.status = r.status, !.target = address,
                                !.access = accessType, !.loaded = r.address,
                                !.loads = r.loads])

\* ------------------------------------------------------------ specifications

\* Values written to the CSRs.  mstatus: MIE; MPP = 1; MPP = 3 with MPIE and
\* bit 18.  sstatus: SIE; SPP with SPIE and bit 18.  medeleg: bits 3, 9, 11
\* and 13.  mideleg: bits 1, 5 and 9.  The trap vectors: one with the low bit
\* set (vectored), one without.
MstatusValues == {N(8), N(2048), N(268416)}
SstatusValues == {N(2), N(262432)}
MedelegValues == {N(10760)}
MidelegValues == {N(546)}
MtvecValues == {[hi |-> 32768, lo |-> 513], [hi |-> 32768, lo |-> 256]}
StvecValues == {N(8193), N(12288)}

\* mie: all six bits, or the three supervisor bits.  mip: for each of the six
\* interrupts a value in which it is the first in the order of the poll.
MieValues == {N(2730), N(546)}
MipValues == {N(2730), N(682), N(674), N(546), N(34), N(32)}

\* The hart, stepped: writes of the CSRs, then steps on every kind of
\* instruction, with the devices raising notifications.
StepWrites ==
    ({MEDELEG} \X MedelegValues) \cup ({MSTATUS} \X {N(8)}) \cup ({SSTATUS} \X {N(2)})
        \cup ({MIE} \X {N(2730)}) \cup ({MIP} \X {N(2730)})

Next ==
    \/ \E w \in StepWrites : calls < MaxCalls /\ StoreCsr(w[1], w[2])
    \/ \E i \in Instructions : calls < MaxCalls /\ Step(i)
    \/ calls < MaxCalls /\ UartAssert
    \/ calls < MaxCalls /\ Store32(VIRTIO_QUEUE_NOTIFY, 0)

Spec == Init /\ [][Next]_vars

\* The trap unit: writes of the CSRs it reads, then traps taken from the
\* three modes (mret and sret leave Machine mode).
MaxTrapCalls == 4

TrapWrites ==
    ({MSTATUS} \X MstatusValues) \cup ({SSTATUS} \X SstatusValues)
        \cup ({MEDELEG} \X MedelegValues) \cup ({MIDELEG} \X MidelegValues)
        \cup ({MTVEC} \X MtvecValues) \cup ({STVEC} \X StvecValues)

Traps ==
    {ExceptionTrap(2), ExceptionTrap(LoadPageFault),
     InterruptTrap(SupervisorSoftwareInterrupt), InterruptTrap(SupervisorExternalInterrupt),
     InterruptTrap(MachineExternalInterrupt)}

NextTrap ==
    \/ \E w \in TrapWrites : calls < MaxTrapCalls /\ StoreCsr(w[1], w[2])
    \/ \E trap \in Traps : calls < MaxTrapCalls /\ TakeTrap(trap)
    \/ \E i \in {j \in Instructions : j.kind \in {"mret", "sret"}} :
            calls < MaxTrapCalls /\ Step(i)

SpecTrap == Init /\ [][NextTrap]_vars

\* The interrupt poll: writes of the CSRs it reads, then polls, with the
\* devices raising notifications and mret leaving Machine mode.
MaxPollCalls == 5

PollWrites ==
    ({MSTATUS} \X {N(8), N(2048)}) \cup ({SSTATUS} \X {N(2)})
        \cup ({MIE} \X MieValues) \cup ({MIP} \X MipValues)

NextPoll ==
    \/ \E w \in PollWrites : calls < MaxPollCalls /\ StoreCsr(w[1], w[2])
    \/ calls < MaxPollCalls /\ CheckPendingInterrupt
    \/ calls < MaxPollCalls /\ UartAssert
    \/ calls < MaxPollCalls /\ Store32(VIRTIO_QUEUE_NOTIFY, 0)
    \/ \E i \in {j \in Instructions : j.kind = "mret"} : calls < MaxPollCalls /\ Step(i)

SpecPoll == Init /\ [][NextPoll]_vars

\* The CSR interface: stores to sie, mie and mideleg, to satp (a root page
\* number alone, with bit 31, with bit 30), to two neighbours in the M window
\* and two in the S window, and the paging refresh.
MaxCsrCalls == 4

CsrWrites ==
    ({SIE} \X {N(0), N(544), N(546)})
        \cup ({MIE} \X {N(2730), N(546)}) \cup ({MIDELEG} \X {N(546)})
        \cup ({SATP} \X {N(1), [hi |-> 32768, lo |-> 1], [hi |-> 16384, lo |-> 2]})
        \cup ({MTVEC} \X {[hi |-> 32768, lo |-> 513]}) \cup ({MEPC} \X {[hi |-> 32768, lo |-> 4]})
        \cup ({SEPC} \X {N(8192)}) \cup ({SCAUSE} \X {N(13)})

NextCsr ==
    \/ \E w \in CsrWrites : calls < MaxCsrCalls /\ StoreCsr(w[1], w[2])
    \/ \E c \in {SATP, MIE} : calls < MaxCsrCalls /\ UpdatePaging(c)

SpecCsr == Init /\ [][NextCsr]_vars

\* The bus: loads and stores of every width at the first and last address
\* of a device range, one below a range, one past it, in the DRAM, at its
\* last byte and past its end.  A device register is stored a number, the
\* DRAM a 32-bit pattern.
MaxBusCalls == 2

DeviceAddresses ==
    {N(CLINT_BASE), N(CLINT_MTIME), N(PLIC_SCLAIM), N(PLIC_BASE + PLIC_SIZE - 1),
     N(UART_BASE), N(UART_BASE + UART_SIZE - 1), N(VIRTIO_BASE), N(VIRTIO_STATUS)}

UnmappedAddresses ==
    {N(0), N(CLINT_BASE - 1), N(CLINT_BASE + CLINT_SIZE), N(UART_BASE + UART_SIZE),
     Sub(DRAM_BASE, N(1))}

DramAddresses ==
    {Add(DRAM_BASE, N(PAGE_SIZE)), Add(DRAM_BASE, N(PAGE_SIZE + 2)),
     Add(DRAM_BASE, N(PAGE_SIZE + 4)), Add(DRAM_BASE, N(DRAM_SIZE - 4)),
     Add(DRAM_BASE, N(DRAM_SIZE - 1))}

PastDramAddresses == {Add(DRAM_BASE, N(DRAM_SIZE)), [hi |-> 65535, lo |-> 65532]}

Sizes == {8, 16, 32, 64}

DramValues == {[hi |-> 57005, lo |-> 48879], N(291)}

BusStores ==
    ((DeviceAddresses \cup UnmappedAddresses) \X Sizes \X {5})
        \cup ((DramAddresses \cup PastDramAddresses) \X Sizes \X DramValues)

BusLoads ==
    (DeviceAddresses \cup UnmappedAddresses \cup DramAddresses \cup PastDramAddresses) \X Sizes

NextBus ==
    \/ \E l \in BusLoads : calls < MaxBusCalls /\ Load(l[1], l[2])
    \/ \E w \in BusStores : calls < MaxBusCalls /\ Store(w[1], w[2], w[3])

SpecBus == Init /\ [][NextBus]_vars

\* The virtio disk: the hart is constructed on a binary that holds, at
\* 0x8000_1000, a chain of two descriptors (the first with addr 0x8000_1020
\* and next 1, the second with addr 0x8000_1030, len 2 and flags 0 or 2), the
\* sector number 1 in the header at 0x8000_1020 and the data AB CD, and on a
\* disk image whose sector 1 starts 11 22.  The driver enables the
\* interrupts, stores the page size and the page number of the descriptors,
\* and notifies the queue; the hart polls.
MaxDiskCalls == 6

ChainBytes(flags1) ==
    (PAGE_SIZE :> 32) @@ ((PAGE_SIZE + 1) :> 16) @@ ((PAGE_SIZE + 3) :> 128)
        @@ ((PAGE_SIZE + 14) :> 1)
        @@ ((PAGE_SIZE + 16) :> 48) @@ ((PAGE_SIZE + 17) :> 16) @@ ((PAGE_SIZE + 19) :> 128)
        @@ ((PAGE_SIZE + 24) :> 2) @@ ((PAGE_SIZE + 28) :> flags1)
        @@ ((PAGE_SIZE + 40) :> 1)
        @@ ((PAGE_SIZE + 48) :> 171) @@ ((PAGE_SIZE + 49) :> 205)

Binary(flags1) ==
    [i \in DramBytes |-> IF i \in DOMAIN ChainBytes(flags1) THEN ChainBytes(flags1)[i] ELSE 0]

DiskImage == [i \in DiskBytes |-> IF i = 512 THEN 17 ELSE IF i = 513 THEN 34 ELSE 0]

InitDisk ==
    \E flags1 \in {0, 2} :
        InitAs([Constructed EXCEPT !.dram = Binary(flags1), !.disk = DiskImage])

DiskWrites == {<<MSTATUS, N(8)>>, <<SSTATUS, N(2)>>}

DiskStores ==
    {<<VIRTIO_GUEST_PAGE_SIZE, PAGE_SIZE>>, <<VIRTIO_QUEUE_PFN, 524289>>,
     <<VIRTIO_QUEUE_NOTIFY, 0>>}

NextDisk ==
    \/ \E w \in DiskWrites : calls < MaxDiskCalls /\ StoreCsr(w[1], w[2])
    \/ \E w \in DiskStores : calls < MaxDiskCalls /\ Store32(w[1], w[2])
    \/ calls < MaxDiskCalls /\ CheckPendingInterrupt

SpecDisk == InitDisk /\ [][NextDisk]_vars

\* Address translation: satp is stored the page number of the CLINT page of
\* mtimecmp or of a DRAM page (without a store the root is 0, an address of
\* no device) and the cache is refreshed; mtimecmp and mtime, the two
\* registers a 64-bit load can read, are stored page-table entries: a
\* pointer to the page of mtime, a pointer to its own page, a leaf with
\* ppn[2] = 5, a leaf with ppn[2] = 1, an entry with w and without r, a
\* leaf with ppn[2] = 5 and ppn[1] = 3.  The addresses translated have vpn = (0, 0, 0) and
\* vpn = (0, 511, 1).
MaxWalkCalls == 5

WalkRoots == {N(8196), N(524289)}

WalkStores ==
    ({N(CLINT_MTIMECMP)} \X {8399873, 8392705, 1342177283, 268435465, 5})
        \cup ({N(CLINT_MTIME)} \X {1343750155})

WalkAddresses == {N(2748), [hi |-> 16352, lo |-> 6844]}

AccessTypes == {"Instruction", "Load", "Store"}

NextWalk ==
    \/ \E v \in WalkRoots : calls < MaxWalkCalls /\ StoreCsr(SATP, v)
    \/ calls < MaxWalkCalls /\ UpdatePaging(SATP)
    \/ \E w \in WalkStores : calls < MaxWalkCalls /\ Store(w[1], 64, w[2])
    \/ \E a \in WalkAddresses : \E t \in AccessTypes : calls < MaxWalkCalls /\ Translate(a, t)
    \/ \E a \in WalkAddresses : \E t \in AccessTypes : calls < MaxWalkCalls /\ TranslateWalk(a, t)

SpecWalk == Init /\ [][NextWalk]_vars

\* The program counter: the trap vectors are stored a base near the top of
\* the 32-bit range (0xFFFF_FFFD, vectored) or in the DRAM, the interrupts
\* are enabled and made pending, and traps are taken, directly and by steps.
MaxPcCalls == 4

PcWrites ==
    ({MTVEC} \X {[hi |-> 65535, lo |-> 65533], [hi |-> 32768, lo |-> 513]})
        \cup ({MSTATUS} \X {N(8)}) \cup ({SSTATUS} \X {N(2)})
        \cup ({MIE} \X {N(2730)}) \cup ({MIP} \X {N(2730)})

NextPc ==
    \/ \E w \in PcWrites : calls < MaxPcCalls /\ StoreCsr(w[1], w[2])
    \/ \E trap \in Traps : calls < MaxPcCalls /\ TakeTrap(trap)
    \/ \E i \in Instructions : calls < MaxPcCalls /\ Step(i)

SpecPc == Init /\ [][NextPc]_vars

\* The timer: 64-bit stores to mtime and mtimecmp, 64-bit loads of both, and
\* steps of the hart.
MaxClintCalls == 4

ClintStores == ({N(CLINT_MTIME)} \X {5, 3}) \cup ({N(CLINT_MTIMECMP)} \X {42, 7})

NextClint ==
    \/ \E w \in ClintStores : calls < MaxClintCalls /\ Store(w[1], 64, w[2])
    \/ \E a \in {N(CLINT_MTIME), N(CLINT_MTIMECMP)} : calls < MaxClintCalls /\ Load(a, 64)
    \/ \E i \in Instructions : calls < MaxClintCalls /\ Step(i)

SpecClint == Init /\ [][NextClint]_vars

\* ------------------------------------------------------------ properties

\* The last call was cpu.takeTrap(obs.trap), from the hart `pre`.
TrapTaken == op = "takeTrap"

\* The registers of the mode that handled the trap just taken.
HandledInS == mode = Supervisor
EpcOf == IF HandledInS THEN SEPC ELSE MEPC
CauseOf == IF HandledInS THEN SCAUSE ELSE MCAUSE
TvalOf == IF HandledInS THEN STVAL ELSE MTVAL
TvecOf == IF HandledInS THEN STVEC ELSE MTVEC

\* The last call polled the interrupts (as checkPendingInterrupt, or inside
\* step) from the hart `at`.
Polled == obs.pollRan

\* C1 (as claimed): a trap raised while step() fetches the instruction never
\* leaves step(); it is handed to takeTrap inside the same call.
C1_FetchTrapHandledInStep ==
    (op = "step" /\ obs.fetch # "ok") => (obs.result # "throws" /\ obs.excTaken)

\* C2: step() returns the halt signal exactly when the exception taken in the
\* step has one of the codes 0, 1, 5, 6, 7; then takeTrap has run and the poll
\* is skipped; for every other exception the trap is taken, the poll runs and
\* step() returns continue.
C2_HaltIffFatal ==
    (op = "step" /\ obs.fetch = "ok") =>
        LET fatal == obs.excTaken /\ obs.trap.exceptionCode \in {0, 1, 5, 6, 7}
            entered == takeTrap([pre EXCEPT !.pc = Add(pre.pc, N(4))], obs.trap)
        IN  /\ (obs.result = "halt") <=> fatal
            /\ fatal => (~obs.pollRan /\ Cur = entered)
            /\ (obs.trap # NoTrap) => obs.excTaken
            /\ (obs.excTaken /\ ~fatal) =>
                    (obs.pollRan /\ at = entered /\ obs.result = "continue")

C2_Witness ==
    /\ op = "step" /\ obs.result = "halt" /\ obs.trap.exceptionCode = 5
    /\ pre.mode = User /\ mode = Machine /\ ~obs.pollRan

\* C3: after takeTrap the mode is Supervisor or Machine, never User; a trap
\* handled in S-mode changes no byte outside sepc, scause, stval and sstatus
\* and leaves mcause, mepc, mtval and mstatus as they read before, and a trap
\* handled in M-mode likewise with the two groups exchanged.
RegisterBytes(A) == A .. (A + 3)
SGroup == {SEPC, SCAUSE, STVAL, SSTATUS}
MGroup == {MEPC, MCAUSE, MTVAL, MSTATUS}

C3_TrapModeAndGroups ==
    TrapTaken =>
        LET mine == IF HandledInS THEN SGroup ELSE MGroup
            other == IF HandledInS THEN MGroup ELSE SGroup
        IN  /\ mode \in {Supervisor, Machine}
            /\ \A A \in other : load_csr(csrs, A) = load_csr(pre.csrs, A)
            /\ \A i \in CsrBytes :
                  csrs[i] # pre.csrs[i] => \E A \in mine : i \in RegisterBytes(A)
            /\ load_csr(csrs, TvalOf) = N(0)

C3_Witness == TrapTaken /\ pre.mode = User /\ mode = Supervisor /\ csrs # pre.csrs

\* C4 (as claimed): the trap is handled in S-mode exactly when the previous
\* mode is User or Supervisor and the bit of the cause code is set in medeleg
\* (an exception) or in mideleg (an interrupt).
C4_DelegationByKind ==
    TrapTaken =>
        LET deleg == IF obs.trap.isInterrupt THEN load_csr(pre.csrs, MIDELEG)
                     ELSE load_csr(pre.csrs, MEDELEG)
        IN  HandledInS <=>
                (pre.mode \in {User, Supervisor} /\ BitOf(deleg, obs.trap.exceptionCode) = 1)

\* C5 (as claimed): after takeTrap entered with program counter p, the
\* exception-PC register of the handling mode reads (p - 4) with the low bit
\* cleared, its cause register reads the trap cause and its trap-value
\* register reads 0.
C5_TrapRegistersRead ==
    TrapTaken =>
        /\ load_csr(csrs, EpcOf) = band(Sub(pre.pc, N(4)), bnot(N(1)))
        /\ band(load_csr(csrs, CauseOf), N(255)) = N(obs.trap.exceptionCode)
        /\ load_csr(csrs, TvalOf) = N(0)

\* C6: on trap entry the status register of the handling mode changes as a
\* one-level interrupt-enable stack and in no other bit: S-mode entry sets
\* SPIE (bit 5) to the old SIE (bit 1), SIE to 0 and SPP (bit 8) to 0 from
\* User and 1 otherwise; M-mode entry sets MPIE (bit 7) to the old MIE
\* (bit 3), MIE to 0 and MPP (bits 11, 12) to 0.
C6_StatusOnEntry ==
    TrapTaken =>
        IF HandledInS
        THEN LET old == load_csr(pre.csrs, SSTATUS)
                 new == load_csr(csrs, SSTATUS)
             IN  \A i \in 0 .. 31 :
                    BitOf(new, i) =
                        IF i = 5 THEN BitOf(old, 1)
                        ELSE IF i = 1 THEN 0
                        ELSE IF i = 8 THEN (IF pre.mode = User THEN 0 ELSE 1)
                        ELSE BitOf(old, i)
        ELSE LET old == load_csr(pre.csrs, MSTATUS)
                 new == load_csr(csrs, MSTATUS)
             IN  \A i \in 0 .. 31 :
                    BitOf(new, i) =
                        IF i = 7 THEN BitOf(old, 3)
                        ELSE IF i \in {3, 11, 12} THEN 0
                        ELSE BitOf(old, i)

C6_Witness ==
    /\ TrapTaken /\ HandledInS /\ pre.mode = User
    /\ BitOf(load_csr(pre.csrs, SSTATUS), 1) = 1
    /\ BitOf(load_csr(csrs, SSTATUS), 5) = 1

\* C7 (as claimed): the cause register of the handling mode holds the
\* interrupt code with bit 31 set after an interrupt, and the exception code
\* with bit 31 clear after an exception.
C7_CauseInterruptBit ==
    TrapTaken =>
        LET cause == load_csr(csrs, CauseOf) IN
        IF obs.trap.isInterrupt
        THEN BitOf(cause, 31) = 1 /\ band(cause, N(31)) = N(obs.trap.exceptionCode)
        ELSE cause = N(obs.trap.exceptionCode)

\* C8: the trap target is (tvec & ~1) + 4 * cause for an interrupt when the
\* low bit of the handling mode's trap vector register is 1, and tvec & ~1 in
\* every other case.
C8_TrapTarget ==
    TrapTaken =>
        LET tvec == load_csr(pre.csrs, TvecOf)
            base == band(tvec, bnot(N(1)))
        IN  programCounter =
                IF obs.trap.isInterrupt /\ BitOf(tvec, 0) = 1
                THEN Add(base, N(4 * obs.trap.exceptionCode))
                ELSE base

C8_Witness ==
    /\ TrapTaken /\ obs.trap.isInterrupt /\ HandledInS
    /\ BitOf(load_csr(pre.csrs, STVEC), 0) = 1
    /\ programCounter = N(8192 + 4 * SupervisorExternalInterrupt)

\* C9 (as claimed): the poll returns at its mode gate exactly when the mode
\* is Machine and mstatus.MIE = 0, or Supervisor and sstatus.SIE = 0.
C9_ModeGate ==
    Polled =>
        ((obs.poll = "gated") <=>
            \/ at.mode = Machine /\ BitOf(load_csr(at.csrs, MSTATUS), 3) = 0
            \/ at.mode = Supervisor /\ BitOf(load_csr(at.csrs, SSTATUS), 1) = 0)

\* C10: a poll that passes the gate returns the first interrupt, in the order
\* MEIP, MSIP, MTIP, SEIP, SSIP, STIP, whose bit is set in mie & mip, and
\* clears that bit of mip and no other; with none of the six bits set it
\* returns no interrupt and leaves mip as it is.
PollOrder ==
    <<[bit |-> 11, code |-> MachineExternalInterrupt],
      [bit |-> 3, code |-> MachineSoftwareInterrupt],
      [bit |-> 7, code |-> MachineTimerInterrupt],
      [bit |-> 9, code |-> SupervisorExternalInterrupt],
      [bit |-> 1, code |-> SupervisorSoftwareInterrupt],
      [bit |-> 5, code |-> SupervisorTimerInterrupt]>>

C10_PollPriority ==
    (op = "checkPendingInterrupt" /\ obs.poll = "returned") =>
        LET mie == load_csr(scanned.csrs, MIE)
            mip == load_csr(scanned.csrs, MIP)
            set == {k \in 1 .. 6 : BitOf(mie, PollOrder[k].bit) = 1 /\ BitOf(mip, PollOrder[k].bit) = 1}
            new == load_csr(csrs, MIP)
        IN  IF set = {}
            THEN obs.pollRet = NoTrap /\ new = mip
            ELSE LET first == CHOOSE k \in set : \A j \in set : k <= j IN
                 /\ obs.pollRet = InterruptTrap(PollOrder[first].code)
                 /\ \A i \in 0 .. 31 :
                        BitOf(new, i) = IF i = PollOrder[first].bit THEN 0 ELSE BitOf(mip, i)

C10_Witness ==
    /\ op = "checkPendingInterrupt" /\ obs.poll = "returned"
    /\ obs.pollRet = InterruptTrap(MachineTimerInterrupt)
    /\ load_csr(csrs, MIP) = N(546)

\* C11 (as claimed): the device scan of an ungated poll chooses irq = 10 when
\* the UART reports an interrupt, otherwise 1 when virtio reports one,
\* otherwise 0; with irq non-zero the PLIC S-mode claim register then holds
\* irq and mip.SEIP is set, and with irq = 0 the scan changes neither the
\* PLIC nor mip.
C11_ExternalScan ==
    (Polled /\ obs.poll # "gated") =>
        LET irq == IF at.uart THEN UART_IRQ
                   ELSE IF at.virtio.queue_notify # NoNotify THEN VIRTIO_IRQ
                   ELSE 0
        IN  /\ obs.poll = "returned"
            /\ obs.irq = irq
            /\ irq # 0 =>
                  /\ scanned.plic.sclaim = irq
                  /\ BitOf(load_csr(scanned.csrs, MIP), 9) = 1
            /\ irq = 0 =>
                  /\ scanned.plic = at.plic
                  /\ load_csr(scanned.csrs, MIP) = load_csr(at.csrs, MIP)

\* The last call was cpu.store_csr(obs.address, obs.value), from the hart `pre`.
CsrStored == op = "store_csr"

\* The CSRs the program names.
NamedCsrs ==
    {MSTATUS, MEDELEG, MIDELEG, MIE, MTVEC, MEPC, MCAUSE, MTVAL, MIP,
     SSTATUS, SIE, STVEC, SEPC, SCAUSE, STVAL, SIP, SATP}

\* C12: in every state, sie read through load_csr equals mie read through
\* load_csr and-ed with mideleg read through load_csr.
C12_SieIsMieAndMideleg ==
    load_csr(csrs, SIE) = band(load_csr(csrs, MIE), load_csr(csrs, MIDELEG))

C12_Witness ==
    /\ CsrStored /\ obs.address = SIE
    /\ load_csr(csrs, SIE) # N(0)
    /\ load_csr(csrs, SIE) # load_csr(csrs, MIE)

\* C13 (as claimed): store_csr(sie, v) leaves mie = (old mie & ~old mideleg) |
\* (v & old mideleg), and mideleg and every CSR other than mie (and its view
\* sie) read as they did before the store.
C13_SieWriteFrame ==
    (CsrStored /\ obs.address = SIE) =>
        LET mie == load_csr(pre.csrs, MIE)
            mideleg == load_csr(pre.csrs, MIDELEG)
        IN  /\ load_csr(csrs, MIE) = bor(band(mie, bnot(mideleg)), band(obs.value, mideleg))
            /\ \A c \in NamedCsrs \ {MIE, SIE} : load_csr(csrs, c) = load_csr(pre.csrs, c)

\* C14 (as claimed): store_csr(c, v) followed by load_csr(c) returns v for
\* every CSR c other than sie and satp, and v & mideleg for sie, mideleg being
\* its value before the store.
C14_CsrRoundTrip ==
    CsrStored =>
        IF obs.address = SIE
        THEN load_csr(csrs, SIE) = band(obs.value, load_csr(pre.csrs, MIDELEG))
        ELSE obs.address # SATP => load_csr(csrs, obs.address) = obs.value

\* satp.ppn and the satp mode field, as update_paging takes them from satp.
SatpPpn(satp) == band(satp, Sub(lshift(N(1), 44), N(1)))
SatpMode(satp) == arshift(satp, 60)

\* C15 (as claimed): after a store to satp through store_csr, enablePaging is
\* (satp mode field = 8) and pageTable is satp.ppn * 4096; and in every state
\* enablePaging implies that the mode field is 8 and pageTable is
\* satp.ppn * 4096.
C15_PagingCacheAgrees ==
    LET satp == load_csr(csrs, SATP)
        agrees == /\ enablePaging = (SatpMode(satp) = N(8))
                  /\ pageTable = MulI(PAGE_SIZE, SatpPpn(satp))
    IN  /\ (CsrStored /\ obs.address = SATP) => agrees
        /\ enablePaging => agrees

\* The last call was cpu.load or cpu.store of obs.size bits at obs.target.
BusAccessed == op \in {"load", "store"}

\* The access fault of the kind of the last call.
AccessFault == IF op = "load" THEN "LoadAccessFault" ELSE "StoreAMOAccessFault"

\* The five declared ranges, lower bound inclusive, upper bound exclusive.
Within(address, low, high) == Le(low, address) /\ Lt(address, high)

Ranges ==
    [clint |-> <<N(CLINT_BASE), N(CLINT_BASE + CLINT_SIZE)>>,
     plic |-> <<N(PLIC_BASE), N(PLIC_BASE + PLIC_SIZE)>>,
     uart |-> <<N(UART_BASE), N(UART_BASE + UART_SIZE)>>,
     virtio |-> <<N(VIRTIO_BASE), N(VIRTIO_BASE + VIRTIO_SIZE)>>,
     dram |-> <<DRAM_BASE, Add(DRAM_BASE, N(DRAM_SIZE))>>]

\* The devices whose declared range holds the address.
Owners(address) == {D \in DOMAIN Ranges : Within(address, Ranges[D][1], Ranges[D][2])}

\* The state of device D in hart s.
DeviceState(s, D) ==
    IF D = "clint" THEN <<s.clint>>
    ELSE IF D = "plic" THEN <<s.plic>>
    ELSE IF D = "uart" THEN <<s.uart>>
    ELSE IF D = "virtio" THEN <<s.virtio>>
    ELSE <<s.dram>>

\* C16 (as claimed): an access at an address in none of the five declared
\* ranges, the addresses from 0x8800_0000 up included, raises the access
\* fault of its kind and changes no device and no DRAM byte.
C16_UnmappedFaults ==
    (BusAccessed /\ Owners(obs.target) = {}) =>
        /\ obs.status = AccessFault
        /\ \A D \in DOMAIN Ranges : DeviceState(Cur, D) = DeviceState(pre, D)

\* C17: the five ranges are pairwise disjoint, and an access whose address
\* lies in a range is handed to the device owning that range and changes the
\* state of no other device; a load at CLINT_BASE - 1 raises LoadAccessFault
\* and a load at CLINT_BASE is handed to the CLINT.
C17_RoutesToOwner ==
    /\ \A D \in DOMAIN Ranges : \A E \in DOMAIN Ranges \ {D} :
          Le(Ranges[D][2], Ranges[E][1]) \/ Le(Ranges[E][2], Ranges[D][1])
    /\ (BusAccessed /\ Owners(obs.target) # {}) =>
          /\ Owners(obs.target) = {obs.device}
          /\ \A D \in DOMAIN Ranges \ {obs.device} : DeviceState(Cur, D) = DeviceState(pre, D)
    /\ (op = "load" /\ obs.target = N(CLINT_BASE - 1)) =>
          (obs.device = "none" /\ obs.status = "LoadAccessFault")
    /\ (op = "load" /\ obs.target = N(CLINT_BASE)) => obs.device = "clint"

C17_Witness ==
    /\ op = "load" /\ obs.target = N(CLINT_BASE) /\ obs.size = 64
    /\ obs.device = "clint" /\ obs.status = "ok"

\* v masked to `size` bits.
MaskTo(v, size) ==
    IF size = 8 THEN N(ByteOf(v, 0))
    ELSE IF size = 16 THEN N(ToU32(v).lo)
    ELSE ToU32(v)

\* C18 (as claimed): a store of 8, 16 or 32 bits at an aligned DRAM address
\* completes, a load of the same size at that address then returns the value
\* masked to the size, and after a 32-bit store the 8-bit load returns the
\* lowest byte and the 16-bit load the low half (little-endian).
C18_DramRoundTrip ==
    (/\ op = "store" /\ Owners(obs.target) = {"dram"} /\ obs.size \in {8, 16, 32}
     /\ obs.target.lo % (obs.size \div 8) = 0) =>
        /\ obs.result = "returns"
        /\ dramLoad(dram, obs.target, obs.size) =
              [status |-> "ok", value |-> MaskTo(obs.stored, obs.size)]
        /\ obs.size = 32 =>
              /\ dramLoad(dram, obs.target, 8).value = MaskTo(obs.stored, 8)
              /\ dramLoad(dram, obs.target, 16).value = MaskTo(obs.stored, 16)

\* C19 (as claimed): a 64-bit load from the DRAM raises LoadAccessFault, a
\* 64-bit store to it raises StoreAMOAccessFault, and neither changes a DRAM
\* byte.
C19_Dram64Faults ==
    (BusAccessed /\ Owners(obs.target) = {"dram"} /\ obs.size = 64) =>
        (obs.status = AccessFault /\ dram = pre.dram)

\* The one access width each device accepts.
LegalWidth == [clint |-> 64, plic |-> 32, uart |-> 8, virtio |-> 32]

\* C20 (as claimed): an access to the CLINT, PLIC, UART or virtio of the
\* device's width completes without raising, and one of any other width
\* raises the access fault of its kind and leaves every device unchanged.
C20_DeviceWidths ==
    \A D \in DOMAIN LegalWidth :
        (BusAccessed /\ Owners(obs.target) = {D}) =>
            IF obs.size = LegalWidth[D]
            THEN obs.status = "ok"
            ELSE /\ obs.status = AccessFault
                 /\ \A E \in DOMAIN Ranges : DeviceState(Cur, E) = DeviceState(pre, E)


\* C21 (as claimed): the UART interrupt check is single-shot.  The check of
\* an ungated poll reports an interrupt exactly when the flag was set and
\* leaves the flag cleared, and the flag is set by nothing but the host
\* asserting the line; so without an assert no check reports an interrupt,
\* and after one assert exactly one does.
C21_UartSingleShot ==
    [][/\ (obs'.pollRan /\ obs'.poll # "gated") =>
              /\ (obs'.irq = UART_IRQ) = at'.uart
              /\ ~scanned'.uart
       /\ (uart' /\ ~uart) => op' = "uartAssert"]_vars


\* C22 (as claimed): in every reachable state an 8-bit load from the UART
\* line status register returns, and bit 5 (transmitter empty) of the value
\* it returns is set.
C22_LsrReportsTxEmpty ==
    /\ busLoad(Cur, N(UART_LSR), 8).status = "ok"
    /\ BitOf(busLoad(Cur, N(UART_LSR), 8).value, 5) = 1


\* The last call polled the interrupts and the poll called diskAccess.
DiskAccessRan == obs.pollRan /\ obs.irq = VIRTIO_IRQ

\* C23 (as claimed): diskAccess runs once per store to QUEUE_NOTIFY.  It
\* runs in a poll only when QUEUE_NOTIFY was stored to since it last ran, and
\* an ungated poll in which the UART does not win the scan runs it when
\* QUEUE_NOTIFY was stored to since its last run.
C23_DiskAccessOncePerNotify ==
    (obs.pollRan /\ obs.poll # "gated") =>
        /\ DiskAccessRan => obs.notified
        /\ (obs.notified /\ ~at.uart) => DiskAccessRan

\* The 32-bit word at `address` of the DRAM of hart s.
WordAt(s, address) == dramLoad(s.dram, address, 32).value

\* The chain the descriptor area of hart s holds: the first descriptor is the
\* one avail[2 + avail[1] % 8] names, the second the one its next names.
ChainOf(s) ==
    LET desc_addr == descAddr(s.virtio)
        offset == dramLoad(s.dram, Add(desc_addr, N(65)), 16).value
        index == dramLoad(s.dram, Add(desc_addr, N(66 + (offset.lo % DESC_NUM))), 16).value
        desc_addr0 == Add(desc_addr, MulI(VRING_DESC_SIZE, index))
        next0 == dramLoad(s.dram, Add(desc_addr0, N(14)), 16).value
        desc_addr1 == Add(desc_addr, MulI(VRING_DESC_SIZE, next0))
    IN  [desc_addr |-> desc_addr,
         addr0 |-> WordAt(s, desc_addr0),
         addr1 |-> WordAt(s, desc_addr1),
         len1 |-> WordAt(s, Add(desc_addr1, N(8))),
         flags1 |-> dramLoad(s.dram, Add(desc_addr1, N(12)), 16).value,
         sector |-> WordAt(s, Add(WordAt(s, desc_addr0), N(8)))]

\* The descriptor area, the header and the data buffer of the chain of hart
\* s lie in the DRAM, the data buffer and its sector are tracked, and the
\* chain has two descriptors.
ChainInDram(s) ==
    /\ s.virtio.page_size = PAGE_SIZE
    /\ Owners(descAddr(s.virtio)) = {"dram"}
    /\ Owners(ChainOf(s).addr0) = {"dram"}
    /\ Owners(ChainOf(s).addr1) = {"dram"}
    /\ ChainOf(s).addr0 # ChainOf(s).addr1
    /\ ChainOf(s).len1 = N(2)
    /\ ChainOf(s).sector = N(1)

\* The offsets of the data buffer in the DRAM and of its sector on the disk.
DataAt(s, i) == Sub(ChainOf(s).addr1, DRAM_BASE).lo + i
SectorAt(s, i) == 512 * ChainOf(s).sector.lo + i

\* C24 (as claimed): on a chain in the DRAM whose data descriptor has
\* flags & 2 = 0, diskAccess returns, the bytes of the sector are the bytes
\* the data buffer held, and the other bytes of the disk and the bytes of the
\* data buffer are as they were.
C24_DeviceWrite ==
    (DiskAccessRan /\ ChainInDram(at) /\ BitOf(ChainOf(at).flags1, 1) = 0) =>
        /\ obs.poll = "returned"
        /\ \A i \in 0 .. (ChainOf(at).len1.lo - 1) :
              /\ disk[SectorAt(at, i)] = at.dram[DataAt(at, i)]
              /\ dram[DataAt(at, i)] = at.dram[DataAt(at, i)]
        /\ \A j \in DiskBytes :
              (j < SectorAt(at, 0) \/ j >= SectorAt(at, ChainOf(at).len1.lo)) => disk[j] = at.disk[j]

\* The offset of the id of the used ring in the DRAM.
UsedIdAt(s) == Sub(Add(ChainOf(s).desc_addr, N(PAGE_SIZE + 2)), DRAM_BASE).lo

\* C25 (as claimed): on a chain in the DRAM whose data descriptor has
\* flags & 2 # 0, diskAccess returns, the bytes of the data buffer are the
\* bytes of the sector, the disk is as it was, and the only bytes of the DRAM
\* changed are those of the data buffer and the id of the used ring.
C25_DeviceRead ==
    (DiskAccessRan /\ ChainInDram(at) /\ BitOf(ChainOf(at).flags1, 1) = 1) =>
        /\ obs.poll = "returned"
        /\ \A i \in 0 .. (ChainOf(at).len1.lo - 1) : dram[DataAt(at, i)] = at.disk[SectorAt(at, i)]
        /\ disk = at.disk
        /\ \A j \in DramBytes :
              (/\ (j < DataAt(at, 0) \/ j >= DataAt(at, ChainOf(at).len1.lo))
               /\ j \notin {UsedIdAt(at), UsedIdAt(at) + 1}) => dram[j] = at.dram[j]

\* C26 (as claimed): the id of virtio starts at 0 and grows by one with each
\* diskAccess, and the diskAccess that finds the id k writes k mod 8 as the
\* 16-bit id of the used ring.
C26_UsedRingId ==
    /\ op = "new" => virtio.id = 0
    /\ (DiskAccessRan /\ ChainInDram(at)) =>
          /\ obs.poll = "returned"
          /\ virtio.id = at.virtio.id + 1
          /\ dram[UsedIdAt(at)] + 256 * dram[UsedIdAt(at) + 1] = at.virtio.id % 8


\* Bits 12 + 9k .. 20 + 9k of the 32-bit virtual address va.
VaField(va, k) ==
    IF k = 0 THEN (va.lo \div 4096) + 16 * (va.hi % 32)
    ELSE IF k = 1 THEN (va.hi \div 32) % 512
    ELSE va.hi \div 16384

\* The page-table entry at physical address a, where a 64-bit read is
\* possible: a register of the CLINT or, were it implemented, the DRAM (of
\* which the low word is kept).  As an integer: the entries here are below 2^31.
PteAt(s, a) ==
    IF Owners(a) = {"clint"}
    THEN clintLoad64(s.clint, a)
    ELSE WordAt(s, a).hi * Half + WordAt(s, a).lo

RECURSIVE Walked(_, _, _, _)
\* The walk of the tables of hart s for va, from table a at level i, by the
\* rule of the privileged specification: "unreadable" when an entry lies
\* where no 64-bit read is possible, "fault" for an entry with v = 0, or with
\* r = 0 and w = 1, and for no leaf at level 0, else the leaf and its level.
Walked(s, va, a, i) ==
    LET pa == Add(a, N(8 * VaField(va, i)))
        pte == PteAt(s, pa)
    IN  IF Owners(pa) \cap {"clint", "dram"} = {}
        THEN [kind |-> "unreadable", level |-> i, pte |-> 0]
        ELSE IF pte % 2 = 0 \/ ((pte \div 2) % 2 = 0 /\ (pte \div 4) % 2 = 1)
        THEN [kind |-> "fault", level |-> i, pte |-> pte]
        ELSE IF (pte \div 2) % 2 = 1 \/ (pte \div 8) % 2 = 1
        THEN [kind |-> "leaf", level |-> i, pte |-> pte]
        ELSE IF i = 0
        THEN [kind |-> "fault", level |-> i, pte |-> pte]
        ELSE Walked(s, va, MulI(PAGE_SIZE, N(pte \div 1024)), i - 1)

\* The walk the last call made, or would have made.
LastWalk == Walked(pre, obs.target, pre.pageTable, 2)

PageFaultOf ==
    [Instruction |-> "InstructionPageFault", Load |-> "LoadPageFault",
     Store |-> "StoreAMOPageFault"]

AccessFaultOf ==
    [Instruction |-> "InstructionAccessFault", Load |-> "LoadAccessFault",
     Store |-> "StoreAMOAccessFault"]

WideLeaf(va, pte, i) ==
    IF i = 0
    THEN Add(MulI(PAGE_SIZE, N(pte \div 1024)), N(va.lo % 4096))
    ELSE Add([hi |-> 16384 * (pte \div Pow2(28))
                      + 32 * (IF i = 1 THEN (pte \div Pow2(19)) % 512 ELSE VaField(va, 1)),
              lo |-> 0],
             N(4096 * VaField(va, 0) + (va.lo % 4096)))

C30_ZeroRegister == registers[0] = N(0)

C30_Witness ==
    /\ op = "step" /\ obs.excTaken /\ obs.pollRan
    /\ registers[0] = N(0)
    /\ registers[3] = Add(DRAM_BASE, N(DRAM_SIZE))

\* C31 (as claimed): immediately after construction the program counter is
\* 0x8000_0000, the mode is Machine, x[2] is DRAM_BASE + DRAM_SIZE =
\* 0x8800_0000, every other x-register is 0, every CSR byte is 0 and paging
\* is disabled.
C31_Constructed ==
    op = "new" =>
        /\ programCounter = [hi |-> 32768, lo |-> 0]
        /\ mode = Machine
        /\ registers[2] = [hi |-> 34816, lo |-> 0]
        /\ \A i \in (0 .. 31) \ {2} : registers[i] = N(0)
        /\ \A i \in CsrBytes : csrs[i] = 0
        /\ ~enablePaging

\* C32 (as claimed): in every reachable state the program counter is a
\* 32-bit unsigned value, the increment by 4 and the addition of the vector
\* offset having wrapped modulo 2^32, and its low bit is zero.
C32_PcIsWord == IsU32(programCounter) /\ programCounter.lo % 2 = 0

\* The value a 64-bit load at `address` returns from hart s.
Read64(s, address) == busLoad(s, N(address), 64).value

\* C33 (as claimed): the value read from mtime never decreases across a
\* step, a load or a store, and a 64-bit load of mtimecmp after a 64-bit
\* store to it returns the value stored.
C33_MtimeMonotonic ==
    /\ Le(Read64(pre, CLINT_MTIME), Read64(Cur, CLINT_MTIME))
    /\ (op = "store" /\ obs.target = N(CLINT_MTIMECMP) /\ obs.size = 64) =>
          (obs.status = "ok" /\ Read64(Cur, CLINT_MTIMECMP) = N(obs.stored))

\* The offset into the DRAM buffer of the address of the last access.
TargetIndex == Sub(obs.target, DRAM_BASE).hi * Half + Sub(obs.target, DRAM_BASE).lo

\* C34 (as claimed): a DRAM store of 8, 16 or 32 bits inside the buffer takes
\* one size branch: it returns without raising, the size/8 bytes from the
\* address on hold the low bytes of the value, and every other byte of the
\* DRAM is as it was.
C34_DramStoreFrame ==
    (/\ op = "store" /\ Owners(obs.target) = {"dram"} /\ obs.size \in {8, 16, 32}
     /\ InBuffer(Sub(obs.target, DRAM_BASE), obs.size \div 8)) =>
        /\ obs.status = "ok"
        /\ \A j \in DramBytes :
              dram[j] = IF j >= TargetIndex /\ j < TargetIndex + (obs.size \div 8)
                        THEN ByteOf(obs.stored, j - TargetIndex)
                        ELSE pre.dram[j]

\* The field of the virtio state behind each writable register, by the
\* offset of the register from VIRTIO_BASE.
VirtioField ==
    (32 :> "driver_features") @@ (40 :> "page_size") @@ (48 :> "queue_sel")
        @@ (56 :> "queue_num") @@ (64 :> "queue_pfn") @@ (80 :> "queue_notify")
        @@ (112 :> "status")

\* The offsets of the registers that are both written and read.
VirtioReadable == {32, 64, 112}

\* C35 (as claimed): a 32-bit store to a virtio register changes the field of
\* that register and no other field (so queue_notify changes with a store to
\* +0x50 only), a store to any other offset changes nothing, and a load of a
\* readable register then returns what was stored.
C35_VirtioStoreFrame ==
    (op = "store" /\ Owners(obs.target) = {"virtio"} /\ obs.size = 32) =>
        LET offset == Sub(obs.target, N(VIRTIO_BASE)).lo IN
        /\ obs.status = "ok"
        /\ virtio = IF offset \in DOMAIN VirtioField
                    THEN [pre.virtio EXCEPT ![VirtioField[offset]] = obs.stored]
                    ELSE pre.virtio
        /\ offset \in VirtioReadable => busLoad(Cur, obs.target, 32).value = N(obs.stored)

\* C36: takeTrap runs at most once in a step.  When a step has taken an
\* exception, trap entry has left the hart in Supervisor mode with
\* sstatus.SIE = 0 or in Machine mode with mstatus.MIE = 0, the poll of the
\* same step (if it runs) returns at its mode gate with no interrupt, and the
\* CSRs, the mode and the program counter at the end of the step are those
\* the exception's trap entry left.
C36_OneTrapPerStep ==
    (op = "step" /\ obs.excTaken) =>
        /\ at = takeTrap([pre EXCEPT !.pc = Add(pre.pc, N(4))], obs.trap)
        /\ \/ at.mode = Supervisor /\ BitOf(load_csr(at.csrs, SSTATUS), 1) = 0
           \/ at.mode = Machine /\ BitOf(load_csr(at.csrs, MSTATUS), 3) = 0
        /\ ~obs.intTaken
        /\ obs.pollRet = NoTrap
        /\ obs.pollRan => obs.poll = "gated"
        /\ csrs = at.csrs /\ mode = at.mode /\ programCounter = at.pc

\* A step from User mode, where the poll is never gated, with the UART
\* asserting its line, takes an exception: the poll is stopped at the gate.
C36_Witness ==
    /\ op = "step" /\ obs.excTaken /\ obs.pollRan /\ obs.poll = "gated"
    /\ pre.mode = User /\ pre.uart /\ uart
    /\ ~modeGate(pre.csrs, pre.mode)

\* C37 (as claimed): the CSRs are independent 32-bit cells.  A store to a
\* CSR other than sie leaves every other named CSR (sie apart) reading as
\* before, a store to mie in particular mideleg, medeleg and mtvec; and after
\* a trap entry the exception-PC, cause and trap-value registers of the
\* handling mode each read what the entry stored there.
C37_CsrsIndependent ==
    /\ (CsrStored /\ obs.address # SIE) =>
          \A c \in NamedCsrs \ {obs.address, SIE} : load_csr(csrs, c) = load_csr(pre.csrs, c)
    /\ TrapTaken =>
          /\ load_csr(csrs, EpcOf) = band(Sub(pre.pc, N(4)), bnot(N(1)))
          /\ load_csr(csrs, CauseOf) = trapCause(N(obs.trap.exceptionCode), obs.trap.isInterrupt)
          /\ load_csr(csrs, TvalOf) = N(0)

\* C38: a poll stopped at the mode gate has no side effect.  The UART
\* interrupt flag, the fields of virtio (queue_notify among them), the PLIC
\* registers, the CSRs (mip among them), the disk image and the DRAM are as
\* they were when the poll was entered, so a notification raised while the
\* interrupts are disabled is still pending after the poll.
C38_GatedPollFrame ==
    (Polled /\ obs.poll = "gated") =>
        /\ obs.pollRet = NoTrap
        /\ uart = at.uart
        /\ virtio = at.virtio
        /\ plic = at.plic
        /\ csrs = at.csrs
        /\ disk = at.disk
        /\ dram = at.dram

\* Both devices have raised a notification in Machine mode with mstatus.MIE
\* clear, the poll was stopped at the gate, and both are still pending.
C38_Witness ==
    /\ op = "checkPendingInterrupt" /\ obs.poll = "gated"
    /\ pre.mode = Machine /\ BitOf(load_csr(pre.csrs, MSTATUS), 3) = 0
    /\ pre.uart /\ uart
    /\ pre.virtio.queue_notify # NoNotify /\ virtio.queue_notify # NoNotify

\* mip.SEIP is set in the CSR buffer buf.
SeipSet(buf) == BitOf(load_csr(buf, MIP), 9) = 1

\* The poll of the last call passed its gate and found a device with a
\* notification: the UART, or else virtio.
Consumed == Polled /\ obs.poll # "gated" /\ (at.uart \/ at.virtio.queue_notify # NoNotify)
ConsumedIrq == IF at.uart THEN UART_IRQ ELSE VIRTIO_IRQ

\* The last call returned SupervisorExternalInterrupt from its poll.
ExternalReturned == Polled /\ obs.pollRet = InterruptTrap(SupervisorExternalInterrupt)

\* C39 (as claimed): no detected device interrupt is lost.  A poll that
\* consumes the notification of a device returns, with the IRQ of that device
\* in the PLIC claim register and either SupervisorExternalInterrupt returned
\* or mip.SEIP set; and while mip.SEIP is set for a claimed IRQ, a later step
\* or poll either returns SupervisorExternalInterrupt or leaves mip.SEIP set
\* and the claimed IRQ in place unless it consumes another notification.
C39_NoInterruptLost ==
    [][/\ Consumed' =>
              /\ obs'.poll = "returned"
              /\ scanned'.plic.sclaim = ConsumedIrq'
              /\ ExternalReturned' \/ SeipSet(csrs')
       /\ (SeipSet(csrs) /\ plic.sclaim \in {UART_IRQ, VIRTIO_IRQ}) =>
              \/ ExternalReturned'
              \/ SeipSet(csrs') /\ (plic'.sclaim = plic.sclaim \/ Consumed')]_vars

====
